---- MODULE Spec2Model ----
(***************************************************************************)
(* Pagination-continuity checker of feed-iop-scripts                        *)
(* (src/test_pagination.py, src/qul_response.py).                           *)
(*                                                                          *)
(* One invocation of test_pagination_continuity is modelled as a sequential *)
(* process that blocks on four remote calls (the QUL preprocessor and three *)
(* FetchFeed pages).  Every action runs the code from one blocking call to  *)
(* the next.  The remote side is the environment: it answers each call with *)
(* any value of a bounded set, or never answers.                            *)
(*                                                                          *)
(* Three specifications share the variables:                                *)
(*   Spec       one invocation of the checker                               *)
(*   FnSpec     one call of get_items, get_item_identifier or compare_items *)
(*              on arguments of a bounded set                               *)
(*   BatchSpec  batch_test_from_csv over a list of queries, followed by one *)
(*              of the two rerun commands; a call of the checker is one     *)
(*              step with any of its outcomes                               *)
(*                                                                          *)
(* Python values:                                                           *)
(*   None            the string "None"                                      *)
(*   dict            a function whose DOMAIN is the set of keys present     *)
(*   list            a sequence                                             *)
(*   str (messages)  a sequence of words, so that "text contains" is        *)
(*                   computable                                             *)
(*   Optional[x]     << >> for None, <<x>> for a value, where a None of the *)
(*                   string kind would clash with x's type                  *)
(*   JSON value that is not an object, at a place where the code expects an *)
(*   object (the response, its "data"): a function with the reserved key    *)
(*   "json" that names the type (JNull, JText, JList)                       *)
(*   exception       pc = "Raised" for one that leaves the checker,         *)
(*                   ret.raised for one that leaves a pure function         *)
(***************************************************************************)
EXTENDS Integers, Naturals, Sequences, FiniteSets, TLC

VARIABLES
    feed_id,                \* argument of test_pagination_continuity
    pc,                     \* position of the invocation (state of the checker)
    inflight,               \* remote calls issued and not yet returned
    hung,                   \* the remote side will never answer the call in flight
    qul_calls,              \* number of get_qul_response calls made
    qul_response,           \* local of the same name (line 371), "unset" before
    exc,                    \* message of the exception call_grpc raised, <<>> if none
    preprocessor_response,  \* local of the same name (line 380), <<>> before
    requests,               \* the requests handed to call_grpc, in order
    fetched,                \* number of call_grpc calls that returned a response
    response,               \* response1/response2/response3: the latest one
                            \* (an earlier one is not read again once the
                            \* next call has returned)
    last_item_page1,        \* locals of the same names
    first_item_page2,
    last_item_page2,
    first_item_page3,
    result,                 \* the returned tuple, <<>> before the return
    \* batch_test_from_csv, retry_failed_queries, retry_grpc_failed_queries
    command,                \* the function that runs, "none" before the first
    at,                     \* its position: "idle", "loop", "done", "crashed"
    csv_queries,            \* the non-empty query texts read from the input CSV
    batch_limit,            \* argument limit of the batch: <<n>>, <<>> for None
    queries,                \* local of the same name once the limit is applied
    idx,                    \* loop variable of the loop over the queries
    results,                \* list of result records (existing_results in a rerun)
    failed_queries,         \* the entries a rerun selected, in file order
    passed,                 \* counters of the batch run
    failed,
    checked,                \* the queries the checker was invoked for, in order
    csv_file,               \* the results CSV on disk: <<rows>>, <<>> while absent
    writes,                 \* number of times the results CSV was written
    summary,                \* the printed summary: <<record>>, <<>> before
    \* one call of a pure function
    fn,                     \* name of the function called, "none" before
    args,                   \* its arguments
    ret                     \* what the call did: a value or an exception

checker_vars == <<feed_id, pc, inflight, hung, qul_calls, qul_response, exc,
                  preprocessor_response,
                  requests, fetched, response, last_item_page1, first_item_page2,
                  last_item_page2, first_item_page3, result>>

batch_vars == <<command, at, csv_queries, batch_limit, queries, idx, results,
                failed_queries, passed, failed, checked, csv_file, writes, summary>>

fn_vars == <<fn, args, ret>>

vars == <<checker_vars, batch_vars, fn_vars>>

----------------------------------------------------------------------------
(* Bounds *)

\* Longest items list the feed service returns in the model.
MaxItems == 3

----------------------------------------------------------------------------
(* Program constants *)

LIMIT == 10
TEST_LIMIT == 20

----------------------------------------------------------------------------
(* Python values *)

None == "None"

EmptyDict == [k \in {} |-> None]

\* d.get(k) for a scalar-valued key
Get(d, k) == IF k \in DOMAIN d THEN d[k] ELSE None

\* d.get(k) for a dict-valued key, where a missing key and {} are both falsy
GetDict(d, k) == IF k \in DOMAIN d THEN d[k] ELSE EmptyDict

\* Truth value of a scalar: None, "" and the number 0 are falsy
Falsy == {None, "", "0"}
Truthy(v) == v \notin Falsy

\* a or b
Or(a, b) == IF Truthy(a) THEN a ELSE b

\* Truth value of a dict
DictTruthy(d) == DOMAIN d # {}

\* str(n) for the small numbers that occur
Digits == <<"1", "2", "3", "4", "5", "6", "7", "8", "9">>
Str(n) == IF n = 0 THEN "0" ELSE Digits[n]

\* Optional values
NoneOpt == << >>
Some(x) == <<x>>

\* JSON null, string and array where an object is expected
JNull == ("json" :> "null")
JText(words) == ("json" :> "str") @@ ("text" :> words)
JList(elems) == ("json" :> "list") @@ ("elems" :> elems)

\* isinstance(v, dict)
isinstance_dict(v) == "json" \notin DOMAIN v

\* 'items' in v, for v that is not None: a key of a dict, a part of a string,
\* an element of a list
items_in(v) ==
    IF isinstance_dict(v) THEN "items" \in DOMAIN v
    ELSE IF v["json"] = "str" THEN \E i \in DOMAIN v["text"] : v["text"][i] = "items"
    ELSE \E i \in DOMAIN v["elems"] : v["elems"][i] = "items"

\* items[i] raises IndexError
IndexError(items, i) == i \notin DOMAIN items

----------------------------------------------------------------------------
(* Inputs of the model *)

Queries == {"saree"}

\* Values get_qul_response can return on success (opaque JSON)
QulResponses == {"qulA", "qulB"}

\* Items the feed service returns.  Item1 and Item2 carry the same key in the
\* two naming conventions and different cursors; Item3 has another key;
\* Item4 has neither cursor nor catalog id.
Item1 == ("cursor" :> "c1")
            @@ ("entityResponse" :> (("catalogId" :> "11") @@ ("productId" :> "21")))
Item2 == ("Cursor" :> "c2")
            @@ ("entity_response" :> (("catalog_id" :> "11") @@ ("product_id" :> "21")))
Item3 == ("cursor" :> "c1")
            @@ ("entityResponse" :> (("catalogId" :> "12") @@ ("productId" :> "21")))
Item4 == ("entityResponse" :> ("productId" :> "21"))
Items == {Item1, Item2, Item3, Item4}

\* Items of the responses that carry their list at the top level
TopItems == {Item1, Item2}

\* Item5 carries the key of Item1 and no cursor; Item6 carries a cursor and
\* no entity container
Item5 == ("entityResponse" :> (("catalogId" :> "11") @@ ("productId" :> "21")))
Item6 == ("cursor" :> "c2")

\* The pages on which Item5 and Item6 occur
ExtraPages == {<<Item5>>, <<Item1, Item6>>}

RECURSIVE SeqsUpTo(_, _)
SeqsUpTo(S, n) ==
    IF n = 0 THEN {<< >>}
    ELSE LET shorter == SeqsUpTo(S, n - 1)
         IN  shorter \cup {Append(s, x) : s \in {t \in shorter : Len(t) = n - 1}, x \in S}

Pages == SeqsUpTo(Items, MaxItems)

\* Responses of FetchFeed as grpcurl prints them (the JSON form of a protobuf
\* message): an object with the items under data.items or under items, or
\* without items; every item is an object.  Output that is not JSON makes
\* json.loads raise inside call_grpc and is one of GrpcErrors.
Responses ==
    {("data" :> ("items" :> p)) : p \in Pages \cup ExtraPages}
        \cup {("items" :> p) : p \in SeqsUpTo(TopItems, MaxItems)}
        \cup {EmptyDict, ("data" :> EmptyDict)}

\* Messages of the exceptions call_grpc raises (lines 98, 102, 143, 145)
GrpcErrors ==
    { <<"gRPC", "call", "failed:", "connection", "refused">>,
      <<"Proto", "directory", "not", "found:", "feed">>,
      <<"Expecting", "value:", "line", "1">> }

----------------------------------------------------------------------------
(* Pure functions of src/test_pagination.py *)

\* json.dumps(qul_response, indent=4): the text of the value
json_dumps(v) == <<"json", "indent=4", v>>

\* Mutant: the cursor field is set whatever the cursor is
build_feed_request_AlwaysCursor(fid, preprocessor, cursor, limit) ==
    LET request_limit == IF limit = NoneOpt THEN LIMIT ELSE limit[1]
    IN  [feed_id |-> fid,
         preprocessor_response |-> preprocessor,
         limit |-> request_limit,
         cursor |-> cursor]

build_feed_request(fid, preprocessor, cursor, limit) ==
    LET request_limit == IF limit = NoneOpt THEN LIMIT ELSE limit[1]
        request == [feed_id |-> fid,
                    preprocessor_response |-> preprocessor,
                    limit |-> request_limit]
    IN  IF Truthy(cursor) THEN request @@ ("cursor" :> cursor) ELSE request

\* get_items(response) raises TypeError: at line 195 in the test
\* "'items' in response['data']" when data is None, in the subscript
\* "response['data']['items']" when data is a string or a list holding 'items'
get_items_TypeError(resp) ==
    /\ isinstance_dict(resp)
    /\ "data" \in DOMAIN resp
    /\ ~isinstance_dict(resp["data"])
    /\ (resp["data"]["json"] = "null" \/ items_in(resp["data"]))

\* Mutant: the top-level list is looked for first
get_items_TopFirst(resp) ==
    IF ~isinstance_dict(resp)
    THEN << >>
    ELSE IF "items" \in DOMAIN resp
    THEN resp["items"]
    ELSE IF "data" \in DOMAIN resp /\ items_in(resp["data"])
    THEN resp["data"]["items"]
    ELSE << >>

\* The value get_items(response) returns when it does not raise
get_items(resp) ==
    IF ~isinstance_dict(resp)
    THEN << >>
    ELSE IF "data" \in DOMAIN resp /\ items_in(resp["data"])
    THEN resp["data"]["items"]
    ELSE IF "items" \in DOMAIN resp
    THEN resp["items"]
    ELSE << >>

\* Mutant: the cursor is read from the last item, as get_last_cursor does
get_second_last_cursor_FromLast(resp) ==
    LET items == get_items(resp)
    IN  IF Len(items) >= 2
        THEN LET last_item == items[Len(items)]
             IN  Or(Get(last_item, "cursor"), Get(last_item, "Cursor"))
        ELSE None

get_second_last_cursor(resp) ==
    LET items == get_items(resp)
    IN  IF Len(items) >= 2
        THEN LET second_last_item == items[Len(items) - 1]
             IN  Or(Get(second_last_item, "cursor"), Get(second_last_item, "Cursor"))
        ELSE None

get_item_identifier(item) ==
    LET snake == GetDict(item, "entity_response")
        camel == GetDict(item, "entityResponse")
        entity_response == IF DictTruthy(snake) THEN snake
                           ELSE IF DictTruthy(camel) THEN camel
                           ELSE EmptyDict
        catalog_id == Or(Get(entity_response, "catalog_id"), Get(entity_response, "catalogId"))
        product_id == Or(Get(entity_response, "product_id"), Get(entity_response, "productId"))
    IN  <<catalog_id, product_id>>

\* Mutant: only the product ids are compared
compare_items_ProductOnly(item1, item2) ==
    LET id1 == get_item_identifier(item1)
        id2 == get_item_identifier(item2)
    IN  id1[2] = id2[2] /\ id1[1] # None

\* Mutant: the "id1[0] is not None" guard is left out
compare_items_NoNullGuard(item1, item2) ==
    get_item_identifier(item1) = get_item_identifier(item2)

compare_items(item1, item2) ==
    LET id1 == get_item_identifier(item1)
        id2 == get_item_identifier(item2)
    IN  id1 = id2 /\ id1[1] # None

----------------------------------------------------------------------------
(* Error messages of test_pagination_continuity, as sequences of words *)

QulFailedMsg == <<"Failed", "to", "get", "QUL", "response">>

\* Mutant: the page number of the message is not adapted in the copies
PageCallFailedMsg_Page1(k, e) == <<"Page", "1", "call", "failed:">> \o e

PageCallFailedMsg(k, e) == <<"Page", Str(k), "call", "failed:">> \o e

NotEnoughItemsMsg(k, n) ==
    <<"Not", "enough", "items", "in", "page", Str(k),
      "(got", Str(n), ",", "need", "at", "least", "2)">>

NoCursorMsg(k) ==
    <<"Could", "not", "extract", "cursor", "from", "second-last", "item",
      "in", "page", Str(k)>>

NoItemsPage3Msg == <<"No", "items", "returned", "in", "page", "3">>

\* f"Page k last (Catalog ID=.., Product ID=..) != Page k+1 first (...)"
MismatchMsg(k, last_id, first_id) ==
    <<"Page", Str(k), "last", "(Catalog", "ID=", last_id[1], ",",
      "Product", "ID=", last_id[2], ")", "!=",
      "Page", Str(k + 1), "first", "(Catalog", "ID=", first_id[1], ",",
      "Product", "ID=", first_id[2], ")">>

\* "; ".join(error_details)
RECURSIVE JoinDetails(_)
JoinDetails(details) ==
    IF Len(details) = 0 THEN << >>
    ELSE IF Len(details) = 1 THEN details[1]
    ELSE details[1] \o <<";">> \o JoinDetails(Tail(details))

----------------------------------------------------------------------------
(* The invocation *)

Terminal == {"Passed", "Failed"}

FeedCalls == {"page1", "page2", "page3"}

\* No batch command runs
BatchIdle ==
    /\ command = "none"
    /\ at = "idle"
    /\ csv_queries = << >>
    /\ batch_limit = NoneOpt
    /\ queries = << >>
    /\ idx = 0
    /\ results = << >>
    /\ failed_queries = << >>
    /\ passed = 0
    /\ failed = 0
    /\ checked = << >>
    /\ csv_file = NoneOpt
    /\ writes = 0
    /\ summary = NoneOpt

\* No pure function is called on its own
FnIdle ==
    /\ fn = "none"
    /\ args = << >>
    /\ ret = << >>

\* Entry of test_pagination_continuity
CheckerInit ==
    /\ feed_id \in Queries
    /\ pc = "Init"
    /\ inflight = {}
    /\ hung = FALSE
    /\ qul_calls = 0
    /\ qul_response = "unset"
    /\ exc = << >>
    /\ preprocessor_response = << >>
    /\ requests = << >>
    /\ fetched = 0
    /\ response = EmptyDict
    /\ last_item_page1 = EmptyDict
    /\ first_item_page2 = EmptyDict
    /\ last_item_page2 = EmptyDict
    /\ first_item_page3 = EmptyDict
    /\ result = << >>

Init ==
    /\ CheckerInit
    /\ BatchIdle
    /\ FnIdle

\* return (False, error_msg)
ReturnFailed(error_msg) ==
    /\ pc' = "Failed"
    /\ result' = <<FALSE, Some(error_msg)>>

\* return (True, None)
ReturnPassed ==
    /\ pc' = "Passed"
    /\ result' = <<TRUE, NoneOpt>>

\* An exception leaves test_pagination_continuity: nothing is returned
Raise ==
    /\ pc' = "Raised"
    /\ UNCHANGED result

\* call_grpc(request): the request is handed to grpcurl and the caller blocks
IssueFeedCall(call, request) ==
    /\ requests' = Append(requests, request)
    /\ inflight' = inflight \cup {call}

\* Line 371: get_qul_response(feed_id) is called and blocks in requests.post
CallQul ==
    /\ pc = "Init"
    /\ inflight = {}
    /\ inflight' = inflight \cup {"qul"}
    /\ qul_calls' = qul_calls + 1
    /\ UNCHANGED <<batch_vars, fn_vars>>
    /\ UNCHANGED <<feed_id, qul_response, exc, pc, hung,
                   preprocessor_response, requests, fetched, response,
                   last_item_page1, first_item_page2, last_item_page2,
                   first_item_page3, result>>

\* requests.post has no timeout argument: a service that accepts the
\* connection and never answers blocks the call for ever
QulNeverResponds ==
    /\ "qul" \in inflight
    /\ ~hung
    /\ hung' = TRUE
    /\ UNCHANGED <<batch_vars, fn_vars>>
    /\ UNCHANGED <<feed_id, qul_response, exc, pc, inflight, qul_calls,
                   preprocessor_response, requests, fetched, response,
                   last_item_page1, first_item_page2, last_item_page2,
                   first_item_page3, result>>

\* subprocess.run has no timeout argument and grpcurl is given no -max-time
GrpcNeverResponds ==
    /\ inflight \cap FeedCalls # {}
    /\ ~hung
    /\ hung' = TRUE
    /\ UNCHANGED <<batch_vars, fn_vars>>
    /\ UNCHANGED <<feed_id, qul_response, exc, pc, inflight, qul_calls,
                   preprocessor_response, requests, fetched, response,
                   last_item_page1, first_item_page2, last_item_page2,
                   first_item_page3, result>>

\* Mutant: the "qul_response is None" test is left out
QulReturn_NoNoneCheck ==
    /\ "qul" \in inflight
    /\ ~hung
    /\ \E r \in QulResponses \cup {None} :
          /\ qul_response' = r
          /\ preprocessor_response' = json_dumps(r)
          /\ requests' = Append(requests,
                 build_feed_request(feed_id, preprocessor_response', None,
                                    Some(TEST_LIMIT)))
          /\ inflight' = (inflight \ {"qul"}) \cup {"page1"}
          /\ UNCHANGED <<pc, result>>
    /\ UNCHANGED <<batch_vars, fn_vars>>
    /\ UNCHANGED <<feed_id, exc, hung, qul_calls, fetched, response,
                   last_item_page1, first_item_page2, last_item_page2,
                   first_item_page3>>

\* get_qul_response returns (None on a request or JSON error), lines 372-390
QulReturn ==
    /\ "qul" \in inflight
    /\ ~hung
    /\ \E r \in QulResponses \cup {None} :
          /\ qul_response' = r
          /\ IF r = None
             THEN /\ ReturnFailed(QulFailedMsg)
                  /\ inflight' = inflight \ {"qul"}
                  /\ UNCHANGED <<preprocessor_response, requests>>
             ELSE /\ preprocessor_response' = json_dumps(r)
                  /\ requests' = Append(requests,
                         build_feed_request(feed_id, preprocessor_response', None,
                                            Some(TEST_LIMIT)))
                  /\ inflight' = (inflight \ {"qul"}) \cup {"page1"}
                  /\ UNCHANGED <<pc, result>>
    /\ UNCHANGED <<batch_vars, fn_vars>>
    /\ UNCHANGED <<feed_id, exc, hung, qul_calls, fetched, response,
                   last_item_page1, first_item_page2, last_item_page2,
                   first_item_page3>>

\* Mutant: a page of one item is accepted
Page1Return_AcceptsOne ==
    /\ "page1" \in inflight
    /\ ~hung
    /\ inflight' = inflight \ {"page1"}
    /\ \/ \E e \in GrpcErrors :
             /\ ReturnFailed(PageCallFailedMsg(1, e))
             /\ exc' = e
             /\ UNCHANGED <<fetched, response>>
       \/ \E response1 \in Responses :
             LET items1 == get_items(response1)
             IN  /\ UNCHANGED exc
                 /\ response' = response1
                 /\ fetched' = fetched + 1
                 /\ IF Len(items1) < 1
                    THEN ReturnFailed(NotEnoughItemsMsg(1, Len(items1)))
                    ELSE pc' = "Page1Fetched" /\ UNCHANGED result
    /\ UNCHANGED <<batch_vars, fn_vars>>
    /\ UNCHANGED <<feed_id, qul_response, hung, qul_calls,
                   preprocessor_response, requests, last_item_page1,
                   first_item_page2, last_item_page2, first_item_page3>>

\* call_grpc(request1) returns or raises, lines 389-404
Page1Return ==
    /\ "page1" \in inflight
    /\ ~hung
    /\ inflight' = inflight \ {"page1"}
    /\ \/ \E e \in GrpcErrors :
             /\ ReturnFailed(PageCallFailedMsg(1, e))
             /\ exc' = e
             /\ UNCHANGED <<fetched, response>>
       \/ \E response1 \in Responses :
             /\ UNCHANGED exc
             /\ response' = response1
             /\ fetched' = fetched + 1
             /\ IF get_items_TypeError(response1)
                THEN Raise
                ELSE LET items1 == get_items(response1)
                     IN  IF Len(items1) < 2
                         THEN ReturnFailed(NotEnoughItemsMsg(1, Len(items1)))
                         ELSE pc' = "Page1Fetched" /\ UNCHANGED result
    /\ UNCHANGED <<batch_vars, fn_vars>>
    /\ UNCHANGED <<feed_id, qul_response, hung, qul_calls,
                   preprocessor_response, requests, last_item_page1,
                   first_item_page2, last_item_page2, first_item_page3>>

\* Mutant: the preprocessor is called again for page 2
RequestPage2_FreshQul ==
    /\ pc = "Page1Fetched"
    /\ inflight = {}
    /\ LET items1 == get_items(response)
           second_last_cursor_page1 == get_second_last_cursor(response)
       IN  /\ last_item_page1' = items1[Len(items1)]
           /\ IF ~Truthy(second_last_cursor_page1)
              THEN /\ ReturnFailed(NoCursorMsg(1))
                   /\ UNCHANGED <<requests, inflight, qul_calls>>
              ELSE /\ \E r \in QulResponses :
                         IssueFeedCall("page2",
                             build_feed_request(feed_id, json_dumps(r),
                                                second_last_cursor_page1,
                                                Some(TEST_LIMIT)))
                   /\ qul_calls' = qul_calls + 1
                   /\ UNCHANGED <<pc, result>>
    /\ UNCHANGED <<batch_vars, fn_vars>>
    /\ UNCHANGED <<feed_id, qul_response, exc, hung, preprocessor_response,
                   fetched, response, first_item_page2, last_item_page2,
                   first_item_page3>>

\* Lines 408-431: cursor of page 1, request2, call_grpc(request2) is issued
RequestPage2 ==
    /\ pc = "Page1Fetched"
    /\ inflight = {}
    /\ LET items1 == get_items(response)
           second_last_cursor_page1 == get_second_last_cursor(response)
       IN  IF IndexError(items1, Len(items1))
           THEN Raise /\ UNCHANGED <<last_item_page1, requests, inflight>>
           ELSE /\ last_item_page1' = items1[Len(items1)]
                /\ IF ~Truthy(second_last_cursor_page1)
                   THEN /\ ReturnFailed(NoCursorMsg(1))
                        /\ UNCHANGED <<requests, inflight>>
                   ELSE /\ IssueFeedCall("page2",
                               build_feed_request(feed_id, preprocessor_response,
                                                  second_last_cursor_page1,
                                                  Some(TEST_LIMIT)))
                        /\ UNCHANGED <<pc, result>>
    /\ UNCHANGED <<batch_vars, fn_vars>>
    /\ UNCHANGED <<feed_id, qul_response, exc, hung, qul_calls,
                   preprocessor_response, fetched, response, first_item_page2,
                   last_item_page2, first_item_page3>>

\* Mutant: a failed page-2 call is retried
Page2Return_Retry ==
    /\ "page2" \in inflight
    /\ ~hung
    /\ \/ \E e \in GrpcErrors :
             /\ Len(requests) < 4
             /\ requests' = Append(requests, requests[2])
             /\ UNCHANGED <<inflight, pc, result, exc, fetched, response>>
       \/ \E response2 \in Responses :
             LET items2 == get_items(response2)
             IN  /\ UNCHANGED <<exc, requests>>
                 /\ inflight' = inflight \ {"page2"}
                 /\ response' = response2
                 /\ fetched' = fetched + 1
                 /\ IF Len(items2) < 2
                    THEN ReturnFailed(NotEnoughItemsMsg(2, Len(items2)))
                    ELSE pc' = "Page2Fetched" /\ UNCHANGED result
    /\ UNCHANGED <<batch_vars, fn_vars>>
    /\ UNCHANGED <<feed_id, qul_response, hung, qul_calls,
                   preprocessor_response, last_item_page1, first_item_page2,
                   last_item_page2, first_item_page3>>

\* call_grpc(request2) returns or raises, lines 430-445
Page2Return ==
    /\ "page2" \in inflight
    /\ ~hung
    /\ inflight' = inflight \ {"page2"}
    /\ \/ \E e \in GrpcErrors :
             /\ ReturnFailed(PageCallFailedMsg(2, e))
             /\ exc' = e
             /\ UNCHANGED <<fetched, response>>
       \/ \E response2 \in Responses :
             /\ UNCHANGED exc
             /\ response' = response2
             /\ fetched' = fetched + 1
             /\ IF get_items_TypeError(response2)
                THEN Raise
                ELSE LET items2 == get_items(response2)
                     IN  IF Len(items2) < 2
                         THEN ReturnFailed(NotEnoughItemsMsg(2, Len(items2)))
                         ELSE pc' = "Page2Fetched" /\ UNCHANGED result
    /\ UNCHANGED <<batch_vars, fn_vars>>
    /\ UNCHANGED <<feed_id, qul_response, hung, qul_calls,
                   preprocessor_response, requests, last_item_page1,
                   first_item_page2, last_item_page2, first_item_page3>>

\* Mutant: the "if not second_last_cursor_page2" test is left out
RequestPage3_NoCursorCheck ==
    /\ pc = "Page2Fetched"
    /\ inflight = {}
    /\ LET items2 == get_items(response)
           second_last_cursor_page2 == get_second_last_cursor(response)
       IN  /\ first_item_page2' = items2[1]
           /\ last_item_page2' = items2[Len(items2)]
           /\ IssueFeedCall("page3",
                  build_feed_request(feed_id, preprocessor_response,
                                     second_last_cursor_page2,
                                     Some(TEST_LIMIT)))
           /\ UNCHANGED <<pc, result>>
    /\ UNCHANGED <<batch_vars, fn_vars>>
    /\ UNCHANGED <<feed_id, qul_response, exc, hung, qul_calls,
                   preprocessor_response, fetched, response, last_item_page1,
                   first_item_page3>>

\* Lines 449-476: cursor of page 2, request3, call_grpc(request3) is issued
RequestPage3 ==
    /\ pc = "Page2Fetched"
    /\ inflight = {}
    /\ LET items2 == get_items(response)
           second_last_cursor_page2 == get_second_last_cursor(response)
       IN  IF IndexError(items2, 1)
           THEN Raise /\ UNCHANGED <<first_item_page2, last_item_page2,
                                     requests, inflight>>
           ELSE /\ first_item_page2' = items2[1]
                /\ last_item_page2' = items2[Len(items2)]
                /\ IF ~Truthy(second_last_cursor_page2)
                   THEN /\ ReturnFailed(NoCursorMsg(2))
                        /\ UNCHANGED <<requests, inflight>>
                   ELSE /\ IssueFeedCall("page3",
                               build_feed_request(feed_id, preprocessor_response,
                                                  second_last_cursor_page2,
                                                  Some(TEST_LIMIT)))
                        /\ UNCHANGED <<pc, result>>
    /\ UNCHANGED <<batch_vars, fn_vars>>
    /\ UNCHANGED <<feed_id, qul_response, exc, hung, qul_calls,
                   preprocessor_response, fetched, response, last_item_page1,
                   first_item_page3>>

\* Mutant: the "len(items3) == 0" test is left out
Page3Return_NoEmptyCheck ==
    /\ "page3" \in inflight
    /\ ~hung
    /\ inflight' = inflight \ {"page3"}
    /\ \/ \E e \in GrpcErrors :
             /\ ReturnFailed(PageCallFailedMsg(3, e))
             /\ exc' = e
             /\ UNCHANGED <<fetched, response>>
       \/ \E response3 \in Responses :
             /\ UNCHANGED exc
             /\ response' = response3
             /\ fetched' = fetched + 1
             /\ IF get_items_TypeError(response3)
                THEN Raise
                ELSE pc' = "Page3Fetched" /\ UNCHANGED result
    /\ UNCHANGED <<batch_vars, fn_vars>>
    /\ UNCHANGED <<feed_id, qul_response, hung, qul_calls,
                   preprocessor_response, requests, last_item_page1,
                   first_item_page2, last_item_page2, first_item_page3>>

\* Mutant: page 3 needs two items, as pages 1 and 2 do
Page3Return_NeedsTwo ==
    /\ "page3" \in inflight
    /\ ~hung
    /\ inflight' = inflight \ {"page3"}
    /\ \/ \E e \in GrpcErrors :
             /\ ReturnFailed(PageCallFailedMsg(3, e))
             /\ exc' = e
             /\ UNCHANGED <<fetched, response>>
       \/ \E response3 \in Responses :
             /\ UNCHANGED exc
             /\ response' = response3
             /\ fetched' = fetched + 1
             /\ IF get_items_TypeError(response3)
                THEN Raise
                ELSE LET items3 == get_items(response3)
                     IN  IF Len(items3) < 2
                         THEN ReturnFailed(NoItemsPage3Msg)
                         ELSE pc' = "Page3Fetched" /\ UNCHANGED result
    /\ UNCHANGED <<batch_vars, fn_vars>>
    /\ UNCHANGED <<feed_id, qul_response, hung, qul_calls,
                   preprocessor_response, requests, last_item_page1,
                   first_item_page2, last_item_page2, first_item_page3>>

\* call_grpc(request3) returns or raises, lines 475-490
Page3Return ==
    /\ "page3" \in inflight
    /\ ~hung
    /\ inflight' = inflight \ {"page3"}
    /\ \/ \E e \in GrpcErrors :
             /\ ReturnFailed(PageCallFailedMsg(3, e))
             /\ exc' = e
             /\ UNCHANGED <<fetched, response>>
       \/ \E response3 \in Responses :
             /\ UNCHANGED exc
             /\ response' = response3
             /\ fetched' = fetched + 1
             /\ IF get_items_TypeError(response3)
                THEN Raise
                ELSE LET items3 == get_items(response3)
                     IN  IF Len(items3) = 0
                         THEN ReturnFailed(NoItemsPage3Msg)
                         ELSE pc' = "Page3Fetched" /\ UNCHANGED result
    /\ UNCHANGED <<batch_vars, fn_vars>>
    /\ UNCHANGED <<feed_id, qul_response, hung, qul_calls,
                   preprocessor_response, requests, last_item_page1,
                   first_item_page2, last_item_page2, first_item_page3>>

\* Mutant: the second boundary is tested only when the first one matched
BoundaryDetails_StopAtFirst(last1, first2, last2, first3) ==
    IF ~compare_items(last1, first2)
    THEN << MismatchMsg(1, get_item_identifier(last1), get_item_identifier(first2)) >>
    ELSE IF ~compare_items(last2, first3)
    THEN << MismatchMsg(2, get_item_identifier(last2), get_item_identifier(first3)) >>
    ELSE << >>

\* Lines 507-536: the two boundary tests, in order; each failed test appends
\* its detail to error_details
BoundaryDetails(last1, first2, last2, first3) ==
    LET test1 == IF compare_items(last1, first2) THEN << >>
                 ELSE << MismatchMsg(1, get_item_identifier(last1),
                                        get_item_identifier(first2)) >>
        test2 == IF compare_items(last2, first3) THEN << >>
                 ELSE << MismatchMsg(2, get_item_identifier(last2),
                                        get_item_identifier(first3)) >>
    IN  test1 \o test2

\* Lines 494-551: first item of page 3, both boundary tests, the verdict
Verify ==
    /\ pc = "Page3Fetched"
    /\ inflight = {}
    /\ LET items3 == get_items(response)
           error_details == BoundaryDetails(last_item_page1, first_item_page2,
                                            last_item_page2, items3[1])
           all_tests_passed == Len(error_details) = 0
       IN  IF IndexError(items3, 1)
           THEN Raise /\ UNCHANGED first_item_page3
           ELSE /\ first_item_page3' = items3[1]
                /\ IF all_tests_passed
                   THEN ReturnPassed
                   ELSE ReturnFailed(JoinDetails(error_details))
    /\ UNCHANGED <<batch_vars, fn_vars>>
    /\ UNCHANGED <<feed_id, qul_response, exc, inflight, hung, qul_calls,
                   preprocessor_response, requests, fetched, response,
                   last_item_page1, first_item_page2, last_item_page2>>

Next ==
    \/ CallQul
    \/ QulNeverResponds
    \/ GrpcNeverResponds
    \/ QulReturn
    \/ Page1Return
    \/ RequestPage2
    \/ Page2Return
    \/ RequestPage3
    \/ Page3Return
    \/ Verify

Spec == Init /\ [][Next]_vars

\* The interpreter runs the invocation whenever it is not blocked in a call,
\* and a remote side that answers at all answers eventually
FairSpec == Spec /\ WF_vars(Next)

----------------------------------------------------------------------------
(* The pure functions called on their own *)

\* Longest text or list that stands where an object is expected
MaxJunk == 2

\* Words of such a text, elements of such a list
JunkWords == {"items", "n/a"}

\* Responses that are JSON but not what the feed service prints: the
\* response or its "data" is null, a string or a list
MalformedResponses ==
    LET junk == {JNull} \cup {JText(w) : w \in SeqsUpTo(JunkWords, MaxJunk)}
                        \cup {JList(w) : w \in SeqsUpTo(JunkWords, MaxJunk)}
    IN  junk \cup {("data" :> j) : j \in junk}
             \cup {("data" :> j) @@ ("items" :> <<Item1>>) : j \in junk}

\* Responses with a list at the top level next to "data", which holds a
\* list of its own or none
BothPathResponses ==
    LET lists == {<< >>, <<Item1>>, <<Item2, Item3>>}
    IN  {("data" :> ("items" :> p)) @@ ("items" :> q) : p \in lists, q \in lists}
            \cup {("data" :> EmptyDict) @@ ("items" :> q) : q \in lists}

RawResponses == Responses \cup MalformedResponses \cup BothPathResponses

\* Key values an item stores: two ids, the number 0, the empty string
StoredValues == {"11", "12", "0", ""}

\* Entity containers: each field absent or stored under one of its spellings
Containers ==
    LET fields(spellings) ==
            {EmptyDict} \cup {(k :> v) : k \in spellings, v \in StoredValues}
    IN  {c @@ p : c \in fields({"catalog_id", "catalogId"}),
                  p \in fields({"product_id", "productId"})}

\* Items with one container under either spelling, without container, and
\* with both containers
KeyItems ==
    {(k :> c) : k \in {"entity_response", "entityResponse"}, c \in Containers}
        \cup {EmptyDict, Item6}
        \cup {("entity_response" :> EmptyDict) @@ Item5,
              ("entity_response" :> ("product_id" :> "21"))
                  @@ ("entityResponse" :> ("catalogId" :> "11"))}

\* Longest array of catalog ids compare_arrays is called with
MaxIds == 2

\* Catalog ids of the two flows, as their decimal texts
CatalogIds == {"101", "102"}

CatalogIdArrays == SeqsUpTo(CatalogIds, MaxIds)

\* Failure reasons of compare_arrays (src/compare_csv_files.py)
DifferentLengthsMsg(l2_len, feed_len) ==
    <<"Different", "lengths:", "older", "flow", "has", Str(l2_len), "items,",
      "new", "flow", "has", Str(feed_len), "items">>

DifferentValueMsg(i, l2_value, feed_value) ==
    <<"Different", "value", "at", "position", Str(i), ":", "older", "flow",
      "has", l2_value, ",", "new", "flow", "has", feed_value>>

UnclearMsg == <<"Arrays", "differ", "but", "reason", "unclear">>

\* Mutant: the last differing position is reported
compare_arrays_LastDifference(l2_ids, feed_ids) ==
    IF l2_ids = feed_ids
    THEN <<"PASSED", << >>>>
    ELSE IF Len(l2_ids) # Len(feed_ids)
    THEN <<"FAILED", DifferentLengthsMsg(Len(l2_ids), Len(feed_ids))>>
    ELSE LET differing == {i \in 1..Len(l2_ids) : l2_ids[i] # feed_ids[i]}
         IN  IF differing # {}
             THEN LET i == CHOOSE d \in differing : \A o \in differing : o <= d
                  IN  <<"FAILED", DifferentValueMsg(i - 1, l2_ids[i], feed_ids[i])>>
             ELSE <<"FAILED", UnclearMsg>>

\* compare_arrays(l2_ids, feed_ids), lines 15-46 of compare_csv_files.py; the
\* loop returns at the first i in range(min_len) with differing elements
\* (positions are counted from 0)
compare_arrays(l2_ids, feed_ids) ==
    IF l2_ids = feed_ids
    THEN <<"PASSED", << >>>>
    ELSE LET l2_len == Len(l2_ids)
             feed_len == Len(feed_ids)
         IN  IF l2_len # feed_len
             THEN <<"FAILED", DifferentLengthsMsg(l2_len, feed_len)>>
             ELSE LET min_len == IF l2_len <= feed_len THEN l2_len ELSE feed_len
                      differing == {i \in 1..min_len : l2_ids[i] # feed_ids[i]}
                  IN  IF differing # {}
                      THEN LET i == CHOOSE d \in differing :
                                        \A o \in differing : d <= o
                           IN  <<"FAILED",
                                 DifferentValueMsg(i - 1, l2_ids[i], feed_ids[i])>>
                      ELSE <<"FAILED", UnclearMsg>>

\* What a call did
Returned(v) == [raised |-> "", value |-> <<v>>]
Raised(e) == [raised |-> e, value |-> << >>]

\* The function and its arguments are chosen, the call is not made yet
FnInit ==
    /\ CheckerInit
    /\ BatchIdle
    /\ ret = << >>
    /\ \/ fn = "get_items" /\ args \in {<<r>> : r \in RawResponses}
       \/ fn = "get_item_identifier" /\ args \in {<<item>> : item \in KeyItems}
       \/ fn = "compare_items" /\ args \in KeyItems \X KeyItems
       \/ fn = "compare_arrays" /\ args \in CatalogIdArrays \X CatalogIdArrays

\* get_items(response) is called
Call_get_items ==
    /\ fn = "get_items"
    /\ ret = << >>
    /\ ret' = IF get_items_TypeError(args[1])
              THEN Raised("TypeError")
              ELSE Returned(get_items(args[1]))
    /\ UNCHANGED <<fn, args, checker_vars, batch_vars>>

\* get_item_identifier(item) is called
Call_get_item_identifier ==
    /\ fn = "get_item_identifier"
    /\ ret = << >>
    /\ ret' = Returned(get_item_identifier(args[1]))
    /\ UNCHANGED <<fn, args, checker_vars, batch_vars>>

\* compare_items(item1, item2) is called
Call_compare_items ==
    /\ fn = "compare_items"
    /\ ret = << >>
    /\ ret' = Returned(compare_items(args[1], args[2]))
    /\ UNCHANGED <<fn, args, checker_vars, batch_vars>>

\* compare_arrays(l2_ids, feed_ids) is called
Call_compare_arrays ==
    /\ fn = "compare_arrays"
    /\ ret = << >>
    /\ ret' = Returned(compare_arrays(args[1], args[2]))
    /\ UNCHANGED <<fn, args, checker_vars, batch_vars>>

FnNext ==
    \/ Call_get_items
    \/ Call_get_item_identifier
    \/ Call_compare_items
    \/ Call_compare_arrays

FnSpec == FnInit /\ [][FnNext]_vars

----------------------------------------------------------------------------
(* The batch run and the reruns *)

\* Longest list of queries of the input CSV
MaxQueries == 2

\* Largest value of the limit argument considered
MaxLimit == 1

\* Query texts of the input CSV; a text can occur on several rows
QueryTexts == {"q1", "q2"}

\* str(e) of an exception that leaves the checker
CheckerExceptions ==
    { <<"argument", "of", "type", "'NoneType'", "is", "not", "iterable">> }

\* Error texts test_pagination_continuity returns: the preprocessor failed, a
\* feed call failed, a page was too short, a boundary did not match
FailureTexts ==
    { QulFailedMsg,
      PageCallFailedMsg(2, <<"gRPC", "call", "failed:", "connection", "refused">>),
      NotEnoughItemsMsg(1, 1),
      MismatchMsg(1, <<"11", "21">>, <<"12", "21">>) }

\* What one call of test_pagination_continuity does: it returns (True, None)
\* or (False, text), or an exception leaves it
CheckerOutcomes ==
    { [result |-> <<TRUE, NoneOpt>>, exception |-> NoneOpt] }
        \cup { [result |-> <<FALSE, Some(text)>>, exception |-> NoneOpt] :
                 text \in FailureTexts }
        \cup { [result |-> << >>, exception |-> Some(e)] : e \in CheckerExceptions }

\* error_msg or '' (the empty text is << >>)
OrEmpty(error_msg) == IF error_msg = NoneOpt THEN << >> ELSE error_msg[1]

\* f"Exception: {str(e)}"
ExceptionMsg(e) == <<"Exception:">> \o e

\* Mutant: the text of an exception is not recorded
batch_record_NoExceptionText(query, outcome) ==
    IF outcome.exception # NoneOpt
    THEN [query |-> query, status |-> "FAILED", error_message |-> << >>]
    ELSE IF outcome.result[1]
    THEN [query |-> query, status |-> "PASSED", error_message |-> << >>]
    ELSE [query |-> query, status |-> "FAILED",
          error_message |-> OrEmpty(outcome.result[2])]

\* Lines 594-612 (and 694-711, 803-820): the record of one checked query
batch_record(query, outcome) ==
    IF outcome.exception # NoneOpt
    THEN [query |-> query, status |-> "FAILED",
          error_message |-> ExceptionMsg(outcome.exception[1])]
    ELSE IF outcome.result[1]
    THEN [query |-> query, status |-> "PASSED", error_message |-> << >>]
    ELSE [query |-> query, status |-> "FAILED",
          error_message |-> OrEmpty(outcome.result[2])]

\* word.lower() for the words of the messages
LowerWord(w) ==
    CASE w = "Failed" -> "failed"
      [] w = "QUL" -> "qul"
      [] w = "Page" -> "page"
      [] w = "Not" -> "not"
      [] w = "Could" -> "could"
      [] w = "No" -> "no"
      [] w = "(Catalog" -> "(catalog"
      [] w = "ID=" -> "id="
      [] w = "Product" -> "product"
      [] w = "gRPC" -> "grpc"
      [] w = "Proto" -> "proto"
      [] w = "Expecting" -> "expecting"
      [] w = "Exception:" -> "exception:"
      [] w = "'NoneType'" -> "'nonetype'"
      [] w = "None" -> "none"
      [] OTHER -> w

\* text.lower()
lower(text) == [i \in DOMAIN text |-> LowerWord(text[i])]

\* The word starts with the prefix: of the words of the messages only
\* "failed:" is longer than a prefix it starts with
StartsWith(w, prefix) == w = prefix \/ (prefix = "failed" /\ w = "failed:")

\* sub in text, for a text of words separated by single blanks: the words
\* of sub occur in a row, the last one as the start of a word
in_text(sub, text) ==
    \E i \in 1..(Len(text) + 1 - Len(sub)) :
        /\ \A j \in 1..(Len(sub) - 1) : text[i + j - 1] = sub[j]
        /\ StartsWith(text[i + Len(sub) - 1], sub[Len(sub)])

\* Line 666: the entries retry_failed_queries selects
any_failed(status, error_message) == status = "FAILED"

\* Mutant: only the first of the two texts is looked for
grpc_failed_GrpcOnly(status, error_message) ==
    /\ status = "FAILED"
    /\ error_message # << >>
    /\ in_text(<<"grpc", "call", "failed">>, lower(error_message))

\* Lines 771-776: the entries retry_grpc_failed_queries selects
grpc_failed(status, error_message) ==
    /\ status = "FAILED"
    /\ error_message # << >>
    /\ \/ in_text(<<"grpc", "call", "failed">>, lower(error_message))
       \/ in_text(<<"call", "failed">>, lower(error_message))

RetryCommands == {"retry_failed_queries", "retry_grpc_failed_queries"}

\* The selection test of a rerun command
Selects(cmd, status, error_message) ==
    IF cmd = "retry_failed_queries"
    THEN any_failed(status, error_message)
    ELSE grpc_failed(status, error_message)

\* Mutant: the first row with a text keeps its place in the dictionary
query_to_index_First(existing_results) ==
    [q \in {existing_results[i].query : i \in DOMAIN existing_results} |->
        CHOOSE i \in DOMAIN existing_results :
            /\ existing_results[i].query = q
            /\ \A j \in DOMAIN existing_results :
                  existing_results[j].query = q => i <= j]

\* Lines 685, 790: {result['query']: idx for idx, result in enumerate(...)}:
\* a later row with the same text replaces the earlier one
query_to_index(existing_results) ==
    [q \in {existing_results[i].query : i \in DOMAIN existing_results} |->
        CHOOSE i \in DOMAIN existing_results :
            /\ existing_results[i].query = q
            /\ \A j \in DOMAIN existing_results :
                  existing_results[j].query = q => j <= i]

\* f"{(passed/total*100):.2f}", in hundredths of a percent (no quotient of
\* so few queries lies half-way between two of them)
SuccessRate(p, total) == (p * 20000 + total) \div (2 * total)

\* queries[:limit] of Python, for every integer limit
Slice(list, n) ==
    IF n >= 0
    THEN SubSeq(list, 1, IF n < Len(list) THEN n ELSE Len(list))
    ELSE SubSeq(list, 1, Len(list) + n)

\* The values of --limit (lines 877-888): absent, or an integer
Limits == {NoneOpt} \cup {Some(n) : n \in (0 - 1)..MaxLimit}

\* The input CSV was read (lines 563-573): csv_queries holds its non-empty
\* texts, limit is the argument of the call
BatchInit ==
    /\ CheckerInit
    /\ FnIdle
    /\ command = "none"
    /\ at = "idle"
    /\ csv_queries \in SeqsUpTo(QueryTexts, MaxQueries)
    /\ batch_limit \in Limits
    /\ queries = << >>
    /\ idx = 0
    /\ results = << >>
    /\ failed_queries = << >>
    /\ passed = 0
    /\ failed = 0
    /\ checked = << >>
    /\ csv_file = NoneOpt
    /\ writes = 0
    /\ summary = NoneOpt

\* Mutant: the limit is applied whatever its sign
StartBatch_NoSignTest ==
    /\ command = "none"
    /\ command' = "batch_test_from_csv"
    /\ queries' = IF batch_limit # NoneOpt
                  THEN Slice(csv_queries, batch_limit[1])
                  ELSE csv_queries
    /\ at' = "loop"
    /\ idx' = 1
    /\ results' = << >>
    /\ passed' = 0
    /\ failed' = 0
    /\ UNCHANGED <<csv_queries, batch_limit, failed_queries, checked, csv_file,
                   writes, summary>>
    /\ UNCHANGED <<checker_vars, fn_vars>>

\* Lines 575-589: batch_test_from_csv applies the limit and sets up its loop
StartBatch ==
    /\ command = "none"
    /\ command' = "batch_test_from_csv"
    /\ queries' = IF batch_limit # NoneOpt /\ batch_limit[1] > 0
                  THEN Slice(csv_queries, batch_limit[1])
                  ELSE csv_queries
    /\ at' = "loop"
    /\ idx' = 1
    /\ results' = << >>
    /\ passed' = 0
    /\ failed' = 0
    /\ UNCHANGED <<csv_queries, batch_limit, failed_queries, checked, csv_file,
                   writes, summary>>
    /\ UNCHANGED <<checker_vars, fn_vars>>

\* Mutant: an exception of the checker ends the loop
BatchCheck_AbortOnException ==
    /\ command = "batch_test_from_csv"
    /\ at = "loop"
    /\ idx <= Len(queries)
    /\ \E outcome \in CheckerOutcomes :
          LET record == batch_record(queries[idx], outcome)
          IN  /\ checked' = Append(checked, [query |-> queries[idx],
                                            outcome |-> outcome])
              /\ IF outcome.exception # NoneOpt
                 THEN /\ at' = "crashed"
                      /\ UNCHANGED <<results, passed, failed, idx>>
                 ELSE /\ results' = Append(results, record)
                      /\ passed' = IF record.status = "PASSED"
                                   THEN passed + 1 ELSE passed
                      /\ failed' = IF record.status = "FAILED"
                                   THEN failed + 1 ELSE failed
                      /\ idx' = idx + 1
                      /\ UNCHANGED at
    /\ UNCHANGED <<command, csv_queries, batch_limit, queries, failed_queries,
                   csv_file, writes, summary>>
    /\ UNCHANGED <<checker_vars, fn_vars>>

\* Mutant: "failed += 1" is missing in the except branch
BatchCheck_ExceptionUncounted ==
    /\ command = "batch_test_from_csv"
    /\ at = "loop"
    /\ idx <= Len(queries)
    /\ \E outcome \in CheckerOutcomes :
          LET record == batch_record(queries[idx], outcome)
          IN  /\ checked' = Append(checked, [query |-> queries[idx],
                                            outcome |-> outcome])
              /\ results' = Append(results, record)
              /\ passed' = IF record.status = "PASSED" THEN passed + 1 ELSE passed
              /\ failed' = IF record.status = "FAILED" /\ outcome.exception = NoneOpt
                           THEN failed + 1 ELSE failed
    /\ idx' = idx + 1
    /\ UNCHANGED <<command, at, csv_queries, batch_limit, queries, failed_queries,
                   csv_file, writes, summary>>
    /\ UNCHANGED <<checker_vars, fn_vars>>

\* Lines 592-617: one turn of the loop: the checker runs for queries[idx],
\* its record is appended
BatchCheck ==
    /\ command = "batch_test_from_csv"
    /\ at = "loop"
    /\ idx <= Len(queries)
    /\ \E outcome \in CheckerOutcomes :
          LET record == batch_record(queries[idx], outcome)
          IN  /\ checked' = Append(checked, [query |-> queries[idx],
                                            outcome |-> outcome])
              /\ results' = Append(results, record)
              /\ passed' = IF record.status = "PASSED" THEN passed + 1 ELSE passed
              /\ failed' = IF record.status = "FAILED" THEN failed + 1 ELSE failed
    /\ idx' = idx + 1
    /\ UNCHANGED <<command, at, csv_queries, batch_limit, queries, failed_queries,
                   csv_file, writes, summary>>
    /\ UNCHANGED <<checker_vars, fn_vars>>

\* Lines 619-638: the results are written, the summary is printed; with no
\* query passed/total raises ZeroDivisionError after the file is written
BatchFinish ==
    /\ command = "batch_test_from_csv"
    /\ at = "loop"
    /\ idx > Len(queries)
    /\ csv_file' = Some(results)
    /\ writes' = writes + 1
    /\ LET total == Len(queries)
       IN  IF total = 0
           THEN at' = "crashed" /\ UNCHANGED summary
           ELSE /\ at' = "done"
                /\ summary' = Some([total |-> total, passed |-> passed,
                                    failed |-> failed,
                                    rate |-> SuccessRate(passed, total)])
    /\ UNCHANGED <<command, csv_queries, batch_limit, queries, idx, results,
                   failed_queries, passed, failed, checked>>
    /\ UNCHANGED <<checker_vars, fn_vars>>

\* The entries of the rows a rerun command selects, in file order
SelectedRows(cmd, rows) ==
    SelectSeq(rows, LAMBDA row : Selects(cmd, row.status, row.error_message))

\* Mutant: the rows are written back when nothing is selected
StartRetry_Rewrites ==
    /\ command = "batch_test_from_csv"
    /\ at \in {"done", "crashed"}
    /\ csv_file # NoneOpt
    /\ \E cmd \in RetryCommands :
          LET existing_results == csv_file[1]
              selected == SelectedRows(cmd, existing_results)
          IN  /\ command' = cmd
              /\ results' = existing_results
              /\ failed_queries' = [i \in DOMAIN selected |-> selected[i].query]
              /\ at' = IF Len(selected) = 0 THEN "done" ELSE "loop"
              /\ writes' = IF Len(selected) = 0 THEN writes + 1 ELSE writes
    /\ idx' = 1
    /\ passed' = 0
    /\ failed' = 0
    /\ checked' = << >>
    /\ summary' = NoneOpt
    /\ UNCHANGED <<csv_queries, batch_limit, queries, csv_file>>
    /\ UNCHANGED <<checker_vars, fn_vars>>

\* Lines 648-690 and 752-795: a rerun command reads the results file of an
\* earlier run and selects; it returns when nothing is selected
StartRetry ==
    /\ command = "batch_test_from_csv"
    /\ at \in {"done", "crashed"}
    /\ csv_file # NoneOpt
    /\ \E cmd \in RetryCommands :
          LET existing_results == csv_file[1]
              selected == SelectedRows(cmd, existing_results)
          IN  /\ command' = cmd
              /\ results' = existing_results
              /\ failed_queries' = [i \in DOMAIN selected |-> selected[i].query]
              /\ at' = IF Len(selected) = 0 THEN "done" ELSE "loop"
    /\ idx' = 1
    /\ passed' = 0
    /\ failed' = 0
    /\ checked' = << >>
    /\ summary' = NoneOpt
    /\ UNCHANGED <<csv_queries, batch_limit, queries, csv_file, writes>>
    /\ UNCHANGED <<checker_vars, fn_vars>>

\* Mutant: the record of a rerun is appended to the rows
RetryCheck_Appends ==
    /\ command \in RetryCommands
    /\ at = "loop"
    /\ idx <= Len(failed_queries)
    /\ \E outcome \in CheckerOutcomes :
          LET query == failed_queries[idx]
              record == batch_record(query, outcome)
          IN  /\ checked' = Append(checked, [query |-> query, outcome |-> outcome])
              /\ results' = Append(results, record)
              /\ passed' = IF record.status = "PASSED" THEN passed + 1 ELSE passed
              /\ failed' = IF record.status = "FAILED" THEN failed + 1 ELSE failed
    /\ idx' = idx + 1
    /\ UNCHANGED <<command, at, csv_queries, batch_limit, queries, failed_queries,
                   csv_file, writes, summary>>
    /\ UNCHANGED <<checker_vars, fn_vars>>

\* Lines 692-718 and 801-828: one turn of the rerun loop: the checker runs
\* for failed_queries[idx], the entry query_to_index names is overwritten
RetryCheck ==
    /\ command \in RetryCommands
    /\ at = "loop"
    /\ idx <= Len(failed_queries)
    /\ \E outcome \in CheckerOutcomes :
          LET query == failed_queries[idx]
              record == batch_record(query, outcome)
              result_idx == query_to_index(results)[query]
          IN  /\ checked' = Append(checked, [query |-> query, outcome |-> outcome])
              /\ results' = [results EXCEPT
                                ![result_idx].status = record.status,
                                ![result_idx].error_message = record.error_message]
              /\ passed' = IF record.status = "PASSED" THEN passed + 1 ELSE passed
              /\ failed' = IF record.status = "FAILED" THEN failed + 1 ELSE failed
    /\ idx' = idx + 1
    /\ UNCHANGED <<command, at, csv_queries, batch_limit, queries, failed_queries,
                   csv_file, writes, summary>>
    /\ UNCHANGED <<checker_vars, fn_vars>>

\* Lines 720-740 and 830-850: the updated rows are written back, the rerun
\* summary is printed
RetryFinish ==
    /\ command \in RetryCommands
    /\ at = "loop"
    /\ idx > Len(failed_queries)
    /\ csv_file' = Some(results)
    /\ writes' = writes + 1
    /\ at' = "done"
    /\ summary' = Some([total |-> Len(failed_queries), passed |-> passed,
                        failed |-> failed,
                        rate |-> SuccessRate(passed, Len(failed_queries))])
    /\ UNCHANGED <<command, csv_queries, batch_limit, queries, idx, results,
                   failed_queries, passed, failed, checked>>
    /\ UNCHANGED <<checker_vars, fn_vars>>

BatchNext ==
    \/ StartBatch
    \/ BatchCheck
    \/ BatchFinish
    \/ StartRetry
    \/ RetryCheck
    \/ RetryFinish

BatchSpec == BatchInit /\ [][BatchNext]_vars

----------------------------------------------------------------------------
(* The feed-fetch flow of src/fetch_feed.py: its batch run and its rerun.
   It uses the variables of the batch: passed and failed are success_count
   and failed_count (passed_after_retry and still_failed in the rerun),
   checked is the list of the fetches made, with what the remote calls gave. *)

\* int(cat_id) for the catalog ids that occur ("0" is the number 0); any
\* other text raises ValueError
IntValues == ("101" :> 101) @@ ("102" :> 102) @@ ("0" :> 0)

\* str(n) within json.dumps, for the integers int() yields
IntText(n) == CHOOSE s \in DOMAIN IntValues : IntValues[s] = n

\* json.dumps(catalog_ids): the text of a list of integers
json_dumps_ids(catalog_ids) ==
    <<"[">> \o [i \in DOMAIN catalog_ids |-> IntText(catalog_ids[i])] \o <<"]">>

\* The literal '[]' written for a failed query
EmptyListText == <<"[", "]">>

\* Lines 135-137, 147-149: [e.get('entity_id') or e.get('catalog_id') ...]
entity_ids(entities) ==
    LET dicts == SelectSeq(entities, isinstance_dict)
    IN  [i \in DOMAIN dicts |->
            Or(Get(dicts[i], "entity_id"), Get(dicts[i], "catalog_id"))]

\* Lines 139-141, 143-145: [c.get('catalog_id') ... if c.get('catalog_id')]
catalog_ids_of(catalogs) ==
    LET kept == SelectSeq(catalogs,
                    LAMBDA c : isinstance_dict(c) /\ Truthy(Get(c, "catalog_id")))
    IN  [i \in DOMAIN kept |-> kept[i]["catalog_id"]]

\* Lines 151-153: [item.get('entityResponse', {}).get('catalogId') ...]
item_ids(items) ==
    LET kept == SelectSeq(items,
                    LAMBDA item : /\ isinstance_dict(item)
                                  /\ Truthy(Get(GetDict(item, "entityResponse"),
                                                "catalogId")))
    IN  [i \in DOMAIN kept |-> kept[i]["entityResponse"]["catalogId"]]

\* Lines 155-164: the ids that are not None and that int() converts
to_int(catalog_ids) ==
    LET kept == SelectSeq(catalog_ids,
                    LAMBDA cat_id : cat_id # None /\ cat_id \in DOMAIN IntValues)
    IN  [i \in DOMAIN kept |-> IntValues[kept[i]]]

\* extract_catalog_ids raises TypeError: 'catalogs' in response['data'] with
\* a data that is null
extract_catalog_ids_TypeError(resp) ==
    /\ isinstance_dict(resp)
    /\ "entities" \notin DOMAIN resp
    /\ "catalogs" \notin DOMAIN resp
    /\ "data" \in DOMAIN resp
    /\ resp["data"] = JNull

\* Lines 129-166
extract_catalog_ids(resp) ==
    LET catalog_ids ==
            IF ~isinstance_dict(resp) THEN << >>
            ELSE IF "entities" \in DOMAIN resp THEN entity_ids(resp["entities"])
            ELSE IF "catalogs" \in DOMAIN resp THEN catalog_ids_of(resp["catalogs"])
            ELSE IF "data" \in DOMAIN resp
            THEN LET data == resp["data"]
                 IN  IF "catalogs" \in DOMAIN data THEN catalog_ids_of(data["catalogs"])
                     ELSE IF "entities" \in DOMAIN data THEN entity_ids(data["entities"])
                     ELSE IF "items" \in DOMAIN data THEN item_ids(data["items"])
                     ELSE << >>
            ELSE << >>
    IN  to_int(catalog_ids)

\* Responses of the feed service to the feed-fetch flow: ids under entities
\* (one falsy entity_id), ids under data.items in the two naming conventions,
\* a catalog id that is no number, a null data
FeedResponses ==
    { ("entities" :> << ("entity_id" :> "101"),
                        ("entity_id" :> "0") @@ ("catalog_id" :> "102") >>),
      ("data" :> ("items" :>
          << ("entityResponse" :> ("catalogId" :> "101")),
             ("entity_response" :> ("catalog_id" :> "102")) >>)),
      ("catalogs" :> << ("catalog_id" :> "abc") >>),
      ("data" :> JNull) }

\* What the remote calls of one fetch_feed_for_query give: the preprocessor
\* fails, or call_grpc raises, or call_grpc returns a response
FetchOutcomes ==
    { [qul_response |-> None, exc |-> NoneOpt, response |-> EmptyDict],
      [qul_response |-> "qulA",
       exc |-> Some(<<"gRPC", "call", "failed:", "connection", "refused">>),
       response |-> EmptyDict] }
    \cup { [qul_response |-> "qulA", exc |-> NoneOpt, response |-> r] :
             r \in FeedResponses }

\* Lines 169-194: (catalog_ids, status) for what the remote calls gave
fetch_feed_for_query(outcome) ==
    IF outcome.qul_response = None THEN <<NoneOpt, "FAILED">>
    ELSE IF outcome.exc # NoneOpt \/ extract_catalog_ids_TypeError(outcome.response)
    THEN <<NoneOpt, "FAILED">>
    ELSE <<Some(extract_catalog_ids(outcome.response)), "OK">>

\* Mutant: the row is OK whenever the status returned is OK
feed_record_StatusOnly(query, returned) ==
    IF returned[2] = "OK"
    THEN [query |-> query, catalog_id |-> json_dumps_ids(returned[1][1]),
          status |-> "OK"]
    ELSE [query |-> query, catalog_id |-> EmptyListText, status |-> "FAILED"]

\* Lines 228-246 and 376-388: the row for what fetch_feed_for_query returned
\* (if status == "OK" and catalog_ids)
feed_record(query, returned) ==
    IF returned[2] = "OK" /\ returned[1] # NoneOpt /\ returned[1][1] # << >>
    THEN [query |-> query, catalog_id |-> json_dumps_ids(returned[1][1]),
          status |-> "OK"]
    ELSE [query |-> query, catalog_id |-> EmptyListText, status |-> "FAILED"]

\* The summary of the feed-fetch flow: the rate is printed for a total > 0
FeedSummary(total, ok, not_ok) ==
    Some([total |-> total, passed |-> ok, failed |-> not_ok,
          rate |-> IF total > 0 THEN Some(SuccessRate(ok, total)) ELSE NoneOpt])

\* The input CSV was read (lines 204-207), limit is the argument of the call
FeedInit == BatchInit

\* Lines 209-221: process_queries_from_csv applies the limit, sets its counters
StartProcess ==
    /\ command = "none"
    /\ command' = "process_queries_from_csv"
    /\ queries' = IF batch_limit # NoneOpt /\ batch_limit[1] > 0
                  THEN Slice(csv_queries, batch_limit[1])
                  ELSE csv_queries
    /\ at' = "loop"
    /\ idx' = 1
    /\ results' = << >>
    /\ passed' = 0
    /\ failed' = 0
    /\ UNCHANGED <<csv_queries, batch_limit, failed_queries, checked, csv_file,
                   writes, summary>>
    /\ UNCHANGED <<checker_vars, fn_vars>>

\* Lines 223-246: one turn of the loop: the feed is fetched for queries[idx]
\* and its row is appended
ProcessFetch ==
    /\ command = "process_queries_from_csv"
    /\ at = "loop"
    /\ idx <= Len(queries)
    /\ \E outcome \in FetchOutcomes :
          LET row == feed_record(queries[idx], fetch_feed_for_query(outcome))
          IN  /\ checked' = Append(checked, [query |-> queries[idx],
                                            outcome |-> outcome])
              /\ results' = Append(results, row)
              /\ passed' = IF row.status = "OK" THEN passed + 1 ELSE passed
              /\ failed' = IF row.status = "FAILED" THEN failed + 1 ELSE failed
    /\ idx' = idx + 1
    /\ UNCHANGED <<command, at, csv_queries, batch_limit, queries, failed_queries,
                   csv_file, writes, summary>>
    /\ UNCHANGED <<checker_vars, fn_vars>>

\* Lines 248-268: the rows are written, the summary is printed
ProcessFinish ==
    /\ command = "process_queries_from_csv"
    /\ at = "loop"
    /\ idx > Len(queries)
    /\ csv_file' = Some(results)
    /\ writes' = writes + 1
    /\ at' = "done"
    /\ summary' = FeedSummary(Len(queries), passed, failed)
    /\ UNCHANGED <<command, csv_queries, batch_limit, queries, idx, results,
                   failed_queries, passed, failed, checked>>
    /\ UNCHANGED <<checker_vars, fn_vars>>

\* Lines 323-358: the rerun reads the rows of an earlier run and selects the
\* FAILED ones; it returns when there is none
StartFeedRetry ==
    /\ command = "process_queries_from_csv"
    /\ at = "done"
    /\ LET existing_results == csv_file[1]
           selected == SelectSeq(existing_results,
                                 LAMBDA row : row.status = "FAILED")
       IN  /\ results' = existing_results
           /\ failed_queries' = [i \in DOMAIN selected |-> selected[i].query]
           /\ at' = IF Len(selected) = 0 THEN "done" ELSE "loop"
    /\ command' = "fetch_feed.retry_failed_queries"
    /\ idx' = 1
    /\ passed' = 0
    /\ failed' = 0
    /\ summary' = NoneOpt
    /\ UNCHANGED <<csv_queries, batch_limit, queries, checked, csv_file, writes>>
    /\ UNCHANGED <<checker_vars, fn_vars>>

\* Lines 370-390: one turn of the rerun loop: the feed is fetched for
\* failed_queries[idx], the row query_to_index names is overwritten
FeedRetryFetch ==
    /\ command = "fetch_feed.retry_failed_queries"
    /\ at = "loop"
    /\ idx <= Len(failed_queries)
    /\ \E outcome \in FetchOutcomes :
          LET query == failed_queries[idx]
              row == feed_record(query, fetch_feed_for_query(outcome))
              result_idx == query_to_index(results)[query]
          IN  /\ checked' = Append(checked, [query |-> query, outcome |-> outcome])
              /\ results' = [results EXCEPT
                                ![result_idx].catalog_id = row.catalog_id,
                                ![result_idx].status = row.status]
              /\ passed' = IF row.status = "OK" THEN passed + 1 ELSE passed
              /\ failed' = IF row.status = "FAILED" THEN failed + 1 ELSE failed
    /\ idx' = idx + 1
    /\ UNCHANGED <<command, at, csv_queries, batch_limit, queries, failed_queries,
                   csv_file, writes, summary>>
    /\ UNCHANGED <<checker_vars, fn_vars>>

\* Lines 392-412: the updated rows are written back, the rerun summary is
\* printed
FeedRetryFinish ==
    /\ command = "fetch_feed.retry_failed_queries"
    /\ at = "loop"
    /\ idx > Len(failed_queries)
    /\ csv_file' = Some(results)
    /\ writes' = writes + 1
    /\ at' = "done"
    /\ summary' = FeedSummary(Len(failed_queries), passed, failed)
    /\ UNCHANGED <<command, csv_queries, batch_limit, queries, idx, results,
                   failed_queries, passed, failed, checked>>
    /\ UNCHANGED <<checker_vars, fn_vars>>

FeedNext ==
    \/ StartProcess
    \/ ProcessFetch
    \/ ProcessFinish
    \/ StartFeedRetry
    \/ FeedRetryFetch
    \/ FeedRetryFinish

FeedSpec == FeedInit /\ [][FeedNext]_vars

----------------------------------------------------------------------------
(* The batch run with the checker run step by step: the loop of
   batch_test_from_csv calls test_pagination_continuity, whose steps are the
   actions of the checker, and records what it returns. *)

\* What the remote sides answer in these runs: the preprocessor fails or
\* answers, a feed call fails or returns a page with a boundary that
\* matches, a page with another first item, or a page of one item
SeqQulResponses == {None, "qulA"}
SeqErrors == { <<"gRPC", "call", "failed:", "connection", "refused">> }
SeqResponses ==
    { ("data" :> ("items" :> <<Item1, Item2>>)),
      ("data" :> ("items" :> <<Item3, Item1>>)),
      ("data" :> ("items" :> <<Item3>>)) }

\* The answers of the step lie in those sets
SeqAnswer ==
    /\ qul_response' \in SeqQulResponses \cup {"unset"}
    /\ exc' \in SeqErrors \cup {<< >>}
    /\ response' \in SeqResponses \cup {EmptyDict}

\* The locals of test_pagination_continuity outside a call of it
NoLocals ==
    /\ inflight = {}
    /\ hung = FALSE
    /\ qul_calls = 0
    /\ qul_response = "unset"
    /\ exc = << >>
    /\ preprocessor_response = << >>
    /\ requests = << >>
    /\ fetched = 0
    /\ response = EmptyDict
    /\ last_item_page1 = EmptyDict
    /\ first_item_page2 = EmptyDict
    /\ last_item_page2 = EmptyDict
    /\ first_item_page3 = EmptyDict
    /\ result = << >>

\* The locals of a call are fresh at its entry and gone at its return
ResetLocals ==
    /\ inflight' = {}
    /\ hung' = FALSE
    /\ qul_calls' = 0
    /\ qul_response' = "unset"
    /\ exc' = << >>
    /\ preprocessor_response' = << >>
    /\ requests' = << >>
    /\ fetched' = 0
    /\ response' = EmptyDict
    /\ last_item_page1' = EmptyDict
    /\ first_item_page2' = EmptyDict
    /\ last_item_page2' = EmptyDict
    /\ first_item_page3' = EmptyDict
    /\ result' = << >>

\* The input CSV was read; no call of the checker is active
SeqInit ==
    /\ feed_id = ""
    /\ pc = "Idle"
    /\ NoLocals
    /\ FnIdle
    /\ command = "none"
    /\ at = "idle"
    /\ csv_queries \in SeqsUpTo(QueryTexts, MaxQueries)
    /\ batch_limit \in {NoneOpt, Some(1)}
    /\ queries = << >>
    /\ idx = 0
    /\ results = << >>
    /\ failed_queries = << >>
    /\ passed = 0
    /\ failed = 0
    /\ checked = << >>
    /\ csv_file = NoneOpt
    /\ writes = 0
    /\ summary = NoneOpt

\* Mutant: the checker is called for the next query while a call is active
CallChecker_NoWait ==
    /\ command = "batch_test_from_csv"
    /\ at = "loop"
    /\ idx <= Len(queries)
    /\ pc \notin {"Init", "Passed", "Failed", "Raised"}
    /\ feed_id' = queries[idx]
    /\ pc' = "Init"
    /\ ResetLocals
    /\ UNCHANGED <<batch_vars, fn_vars>>

\* Lines 591-594: the loop calls test_pagination_continuity(query)
CallChecker ==
    /\ command = "batch_test_from_csv"
    /\ at = "loop"
    /\ idx <= Len(queries)
    /\ pc = "Idle"
    /\ feed_id' = queries[idx]
    /\ pc' = "Init"
    /\ ResetLocals
    /\ UNCHANGED <<batch_vars, fn_vars>>

\* Lines 594-617: the call has returned or raised: its record is appended and
\* the loop goes on
RecordVerdict ==
    /\ command = "batch_test_from_csv"
    /\ at = "loop"
    /\ pc \in Terminal \cup {"Raised"}
    /\ LET outcome ==
               IF pc = "Raised"
               THEN [result |-> << >>,
                     exception |-> Some(CHOOSE e \in CheckerExceptions : TRUE)]
               ELSE [result |-> result, exception |-> NoneOpt]
           record == batch_record(feed_id, outcome)
       IN  /\ checked' = Append(checked, [query |-> feed_id, outcome |-> outcome])
           /\ results' = Append(results, record)
           /\ passed' = IF record.status = "PASSED" THEN passed + 1 ELSE passed
           /\ failed' = IF record.status = "FAILED" THEN failed + 1 ELSE failed
    /\ idx' = idx + 1
    /\ pc' = "Idle"
    /\ ResetLocals
    /\ UNCHANGED <<feed_id, command, at, csv_queries, batch_limit, queries,
                   failed_queries, csv_file, writes, summary>>
    /\ UNCHANGED fn_vars

\* The loop is left when no call is active
SeqFinish == pc = "Idle" /\ BatchFinish

SeqNext ==
    \/ StartBatch
    \/ CallChecker
    \/ CallQul
    \/ QulNeverResponds
    \/ GrpcNeverResponds
    \/ QulReturn /\ SeqAnswer
    \/ Page1Return /\ SeqAnswer
    \/ RequestPage2
    \/ Page2Return /\ SeqAnswer
    \/ RequestPage3
    \/ Page3Return /\ SeqAnswer
    \/ Verify
    \/ RecordVerdict
    \/ SeqFinish

SeqSpec == SeqInit /\ [][SeqNext]_vars

----------------------------------------------------------------------------
(* Vocabulary of the specification, used to state the properties *)

\* extractCursor(item): the cursor token under either spelling
ExtractCursor(item) ==
    IF "cursor" \in DOMAIN item /\ Truthy(item["cursor"]) THEN item["cursor"]
    ELSE IF "Cursor" \in DOMAIN item THEN item["Cursor"]
    ELSE None

\* First truthy value of d under one of two spellings of a key, else None
EitherKey(d, k1, k2) ==
    IF k1 \in DOMAIN d /\ Truthy(d[k1]) THEN d[k1]
    ELSE IF k2 \in DOMAIN d THEN d[k2]
    ELSE None

\* itemKey(item): (catalogId, productId) under either naming convention
ItemKey(item) ==
    LET container ==
            IF "entity_response" \in DOMAIN item /\ DOMAIN item["entity_response"] # {}
            THEN item["entity_response"]
            ELSE IF "entityResponse" \in DOMAIN item
            THEN item["entityResponse"]
            ELSE EmptyDict
    IN  << EitherKey(container, "catalog_id", "catalogId"),
           EitherKey(container, "product_id", "productId") >>

\* keysEqual(a, b): equal on both components, catalogId not null
KeysEqual(a, b) == ItemKey(a) = ItemKey(b) /\ ItemKey(a)[1] # None

\* text contains the words of sub, contiguously and in order
Contains(text, sub) ==
    \E i \in 1..(Len(text) + 1 - Len(sub)) :
        SubSeq(text, i, i + Len(sub) - 1) = sub

Last(seq) == seq[Len(seq)]
SecondLast(seq) == seq[Len(seq) - 1]

\* The invocation returned (False, text)
FailedWith(text) == pc = "Failed" /\ result = <<FALSE, Some(text)>>

\* The errorDetail of a returned failure
ErrorDetail == result[2][1]

\* response is the response of page k: k calls have returned and the request
\* for page k + 1 was not answered yet
LatestIsPage(k) == fetched = k /\ Len(requests) \in {k, k + 1}

\* The request for page k + 1 was built from response, the response of page k
NextRequested(k) == fetched = k /\ Len(requests) = k + 1

----------------------------------------------------------------------------
(* C1..C10: the checker *)

AllPagesFetched == fetched = 3 /\ Len(get_items(response)) >= 1

\* C2: when the preprocessor and the three fetches succeed and the pages are
\* long enough, the checker returns (True, None) exactly when the last item of
\* page 1 matches the first of page 2 and the last of page 2 matches the first
\* of page 3, and (False, non-empty detail) otherwise; the items compared are
\* those of the three responses.
C2_Verdict ==
    /\ NextRequested(1) => last_item_page1 = Last(get_items(response))
    /\ NextRequested(2) =>
          /\ first_item_page2 = get_items(response)[1]
          /\ last_item_page2 = Last(get_items(response))
    /\ (AllPagesFetched /\ pc \in Terminal) =>
          LET match1 == KeysEqual(last_item_page1, first_item_page2)
              match2 == KeysEqual(last_item_page2, first_item_page3)
          IN  /\ first_item_page3 = get_items(response)[1]
              /\ (result = <<TRUE, NoneOpt>>) = (match1 /\ match2)
              /\ ~(match1 /\ match2) =>
                    /\ result[1] = FALSE
                    /\ result[2] # NoneOpt
                    /\ Len(ErrorDetail) > 0

\* Witness of C2: a passed run whose boundary items use different naming
\* conventions.
C2_Witness ==
    /\ AllPagesFetched
    /\ pc = "Passed"
    /\ last_item_page1 # first_item_page2
    /\ last_item_page2 # first_item_page3

\* Transitions of the checker's state machine
StateOrder ==
    { <<"Init", "Page1Fetched">>, <<"Page1Fetched", "Page2Fetched">>,
      <<"Page2Fetched", "Page3Fetched">>, <<"Page3Fetched", "Passed">> }
        \cup { <<st, "Failed">> : st \in {"Init", "Page1Fetched",
                                           "Page2Fetched", "Page3Fetched"} }

PageNumber(call) == IF call = "page1" THEN 1 ELSE IF call = "page2" THEN 2 ELSE 3

\* C3: the states are visited in the order Init, Page1Fetched, Page2Fetched,
\* Page3Fetched, none skipped or repeated; Passed is entered from Page3Fetched
\* only; Passed and Failed are final and exclusive; the preprocessor is called
\* at most once and page k is requested at most once, as the k-th feed call,
\* so at most three feed calls are made.
C3_StateMachine ==
    /\ [][ /\ pc' # pc => <<pc, pc'>> \in StateOrder
           /\ pc \notin Terminal
           /\ qul_calls' <= 1
           /\ Len(requests') <= 3
           /\ Len(requests') \in {Len(requests), Len(requests) + 1}
           /\ \A call \in FeedCalls :
                 (call \in inflight' /\ call \notin inflight) =>
                     /\ Len(requests) = PageNumber(call) - 1
                     /\ Len(requests') = PageNumber(call)
           /\ Len(requests') # Len(requests) =>
                 \E call \in FeedCalls : call \in inflight' /\ call \notin inflight
         ]_vars
    /\ [](/\ (pc = "Passed") = (result # << >> /\ result[1] = TRUE)
          /\ (pc = "Failed") = (result # << >> /\ result[1] = FALSE))

\* Witness of C3: a run that reached Passed after three feed calls.
C3_Witness == pc = "Passed" /\ Len(requests) = 3 /\ qul_calls = 1

\* C4: on every run that reaches Page3Fetched both boundary tests are made:
\* the errorDetail of the failure names each boundary that did not match,
\* with the key values of its two items, and no boundary that matched.
C4_AllBoundariesReported ==
    (AllPagesFetched /\ pc = "Failed") =>
        LET key1 == ItemKey(last_item_page1)
            key2 == ItemKey(first_item_page2)
            key3 == ItemKey(last_item_page2)
            key4 == ItemKey(first_item_page3)
            report1 == <<"Page", "1", "last", "(Catalog", "ID=", key1[1], ",",
                         "Product", "ID=", key1[2], ")", "!=",
                         "Page", "2", "first", "(Catalog", "ID=", key2[1], ",",
                         "Product", "ID=", key2[2], ")">>
            report2 == <<"Page", "2", "last", "(Catalog", "ID=", key3[1], ",",
                         "Product", "ID=", key3[2], ")", "!=",
                         "Page", "3", "first", "(Catalog", "ID=", key4[1], ",",
                         "Product", "ID=", key4[2], ")">>
        IN  /\ KeysEqual(last_item_page1, first_item_page2)
                  = ~Contains(ErrorDetail, <<"Page", "1", "last">>)
            /\ ~KeysEqual(last_item_page1, first_item_page2)
                  => Contains(ErrorDetail, report1)
            /\ KeysEqual(last_item_page2, first_item_page3)
                  = ~Contains(ErrorDetail, <<"Page", "2", "last">>)
            /\ ~KeysEqual(last_item_page2, first_item_page3)
                  => Contains(ErrorDetail, report2)

\* Witness of C4: a failed run in which both boundaries are broken.
C4_Witness ==
    /\ AllPagesFetched
    /\ pc = "Failed"
    /\ ~KeysEqual(last_item_page1, first_item_page2)
    /\ ~KeysEqual(last_item_page2, first_item_page3)

\* C5: the preprocessor is called once per run, never again, and every feed
\* request of the run embeds the serialized form of the value that call
\* returned.
C5_OnePreprocessorResult ==
    /\ qul_calls <= 1
    /\ (requests # << >> \/ pc \in Terminal) => qul_calls = 1
    /\ \A i \in 1..Len(requests) :
          /\ qul_response \in QulResponses
          /\ requests[i]["preprocessor_response"] = <<"json", "indent=4", qul_response>>

\* Witness of C5: three requests were made in one run.
C5_Witness == Len(requests) = 3 /\ qul_response = "qulB"

\* C6: every remote call waits a bounded time: when the remote side never
\* answers, the call counts as a transport failure and the run reaches Failed.
C6_BoundedWait == hung ~> (pc = "Failed")

\* C7: when the preprocessor call fails (get_qul_response returns None) the
\* checker returns Failed with the preprocessor-failure reason and no feed
\* request is ever made.
C7_PreprocessorFailure ==
    qul_response = None =>
        /\ FailedWith(<<"Failed", "to", "get", "QUL", "response">>)
        /\ requests = << >>
        /\ inflight = {}
        /\ fetched = 0

\* Witness of C7: the preprocessor call returned None and the run has ended.
C7_Witness == qul_response = None /\ pc = "Failed" /\ qul_calls = 1

\* The k-th feed call has ended without a response
CallEndedWithoutResponse(k) ==
    Len(requests) = k /\ fetched = k - 1 /\ inflight = {}

\* C8: when the feed call for page k fails, the checker returns Failed with
\* "Page k call failed: <detail>", the detail being the message of the
\* failure, and no later page is requested; a feed call ends without a
\* response in no other way.
C8_PageCallFailed ==
    /\ exc # << >> =>
          \E k \in 1..3 :
              /\ CallEndedWithoutResponse(k)
              /\ FailedWith(<<"Page", Str(k), "call", "failed:">> \o exc)
    /\ \A k \in 1..3 : CallEndedWithoutResponse(k) => exc \in GrpcErrors

\* Witness of C8: the call for page 2 failed.
C8_Witness == exc # << >> /\ Len(requests) = 2 /\ pc = "Failed"

\* C9 as stated: a page 1 or page 2 with fewer than two items gives Failed
\* with an errorDetail that has the words "insufficient items", and the next
\* page is not requested.
C9_InsufficientItems ==
    \A k \in {1, 2} :
        (LatestIsPage(k) /\ Len(get_items(response)) < 2) =>
            /\ pc = "Failed"
            /\ Contains(ErrorDetail, <<"insufficient", "items">>)
            /\ Len(requests) = k
            /\ inflight = {}

\* C9, amended: a page 1 or page 2 with n < 2 items gives Failed with the
\* errorDetail "Not enough items in page k (got n, need at least 2)", and the
\* next page is not requested.
C9_NotEnoughItems ==
    \A k \in {1, 2} :
        (LatestIsPage(k) /\ Len(get_items(response)) < 2) =>
            /\ FailedWith(<<"Not", "enough", "items", "in", "page", Str(k),
                            "(got", Str(Len(get_items(response))), ",",
                            "need", "at", "least", "2)">>)
            /\ Len(requests) = k
            /\ inflight = {}

\* Witness of C9: page 2 came back with one item.
C9_Witness ==
    /\ LatestIsPage(2)
    /\ Len(get_items(response)) = 1
    /\ pc = "Failed"

\* Page k has two items or more and its second-to-last item has no cursor
NoCursorOnSecondLast(k) ==
    /\ LatestIsPage(k)
    /\ Len(get_items(response)) >= 2
    /\ ~Truthy(ExtractCursor(SecondLast(get_items(response))))

\* C10: when the second-to-last item of page 1 or page 2 has no cursor, the
\* next step of the checker returns Failed with "Could not extract cursor from
\* second-last item in page k", and the request for page k + 1 is not issued.
C10_NoCursor ==
    [][ \A k \in {1, 2} :
            NoCursorOnSecondLast(k) =>
                /\ pc' = "Failed"
                /\ result' = <<FALSE, Some(<<"Could", "not", "extract", "cursor",
                                             "from", "second-last", "item", "in",
                                             "page", Str(k)>>)>>
                /\ requests' = requests
                /\ Len(requests) = k
                /\ inflight' = {}
      ]_vars

\* Witness of C10: the run failed on page 2, whose second-to-last item has no
\* cursor while its last item has one.
C10_Witness ==
    /\ NoCursorOnSecondLast(2)
    /\ pc = "Failed"
    /\ Truthy(ExtractCursor(Last(get_items(response))))

----------------------------------------------------------------------------
(* C11..C20 *)

\* The run is over: a tuple was returned or an exception left the checker
Over == pc \in Terminal \cup {"Raised"}

\* Fewest items of page k the checker goes on with
MinItems(k) == IF k = 3 THEN 1 ELSE 2

\* The latest response is a page with no items or with too few of them
TooFewItems ==
    \E k \in 1..3 : fetched = k /\ Len(get_items(response)) < MinItems(k)

\* The latest response is page 1 or 2, long enough, and its second-to-last
\* item has no cursor
NoCursorReported ==
    /\ fetched \in {1, 2}
    /\ Len(get_items(response)) >= 2
    /\ ~Truthy(ExtractCursor(SecondLast(get_items(response))))

\* The item has none of the key fields
NoKeyFields(item) == ItemKey(item) = <<None, None>>

\* Three pages were received and a boundary item has no key fields, or the
\* keys of a boundary do not match
BoundaryReported ==
    /\ AllPagesFetched
    /\ \/ \E item \in {last_item_page1, first_item_page2, last_item_page2,
                        get_items(response)[1]} : NoKeyFields(item)
       \/ ~KeysEqual(last_item_page1, first_item_page2)
       \/ ~KeysEqual(last_item_page2, get_items(response)[1])

\* C11: no exception leaves the checker for what the feed service reports: a
\* response with no items, a page with too few items, an item without cursor,
\* an item without key fields, a boundary whose keys differ.  Every run in
\* which one of these happened ends with (False, non-empty detail).
C11_NeverRaises ==
    /\ pc # "Raised"
    /\ (Over /\ (TooFewItems \/ NoCursorReported \/ BoundaryReported)) =>
          /\ pc = "Failed"
          /\ result[1] = FALSE
          /\ result[2] # NoneOpt
          /\ Len(ErrorDetail) > 0

\* Witness of C11: a run of three pages is over, and the last item of page 1
\* had no entity container, hence no key fields.
C11_Witness ==
    /\ Over
    /\ AllPagesFetched
    /\ "entityResponse" \notin DOMAIN last_item_page1
    /\ "entity_response" \notin DOMAIN last_item_page1
    /\ NoKeyFields(last_item_page1)

\* The items list at one of the known paths of a raw response, data.items
\* before items, or the empty sequence
KnownPathItems(raw) ==
    IF ~isinstance_dict(raw) THEN << >>
    ELSE IF /\ "data" \in DOMAIN raw
            /\ isinstance_dict(raw["data"])
            /\ "items" \in DOMAIN raw["data"]
    THEN raw["data"]["items"]
    ELSE IF "items" \in DOMAIN raw THEN raw["items"]
    ELSE << >>

\* C12: get_items never fails: for every raw response, whatever is missing,
\* null or of the wrong shape in it, the call returns the items list found at
\* a known path, or the empty sequence.
C12_NeverFails ==
    (fn = "get_items" /\ ret # << >>) =>
        /\ ret.raised = ""
        /\ ret = Returned(KnownPathItems(args[1]))

\* C13: compare_items returns true exactly when the keys of the two items are
\* equal in the catalog id and in the product id and the catalog id of the
\* first one is not null; two items that both lack a catalog id and have
\* equal product ids are not a match.
C13_KeysEqual ==
    (fn = "compare_items" /\ ret # << >>) =>
        LET key1 == ItemKey(args[1])
            key2 == ItemKey(args[2])
        IN  /\ ret.raised = ""
            /\ ret.value[1] = (/\ key1[1] = key2[1]
                               /\ key1[2] = key2[2]
                               /\ key1[1] # None)
            /\ (key1[1] = None /\ key2[1] = None /\ key1[2] = key2[2])
                  => ret.value[1] = FALSE

\* Witness of C13: two different items without catalog id and with the same
\* product id were compared.
C13_Witness ==
    /\ fn = "compare_items"
    /\ ret # << >>
    /\ args[1] # args[2]
    /\ ItemKey(args[1]) = <<None, "12">>
    /\ ItemKey(args[2]) = <<None, "12">>

\* The item has exactly one entity container
OneContainer(item) ==
    ("entity_response" \in DOMAIN item) # ("entityResponse" \in DOMAIN item)

\* The value the container stores for a field, whichever of the two
\* spellings names it: << >> when the field is absent
StoredField(container, snake, camel) ==
    IF snake \in DOMAIN container THEN Some(container[snake])
    ELSE IF camel \in DOMAIN container THEN Some(container[camel])
    ELSE NoneOpt

\* The (catalogId, productId) an item with one container stores, None for
\* an absent field
StoredKey(item) ==
    LET container == IF "entity_response" \in DOMAIN item
                     THEN item["entity_response"] ELSE item["entityResponse"]
        catalog == StoredField(container, "catalog_id", "catalogId")
        product == StoredField(container, "product_id", "productId")
    IN  << IF catalog = NoneOpt THEN None ELSE catalog[1],
           IF product = NoneOpt THEN None ELSE product[1] >>

\* C19: get_item_identifier returns the catalog id and the product id the
\* item stores, under either spelling of the container and of the fields and
\* for every stored value; it returns (None, None) only when both fields are
\* absent.
C19_StoredKey ==
    (fn = "get_item_identifier" /\ ret # << >> /\ OneContainer(args[1])) =>
        LET container == IF "entity_response" \in DOMAIN args[1]
                         THEN args[1]["entity_response"]
                         ELSE args[1]["entityResponse"]
        IN  /\ ret = Returned(StoredKey(args[1]))
            /\ ret.value[1] = <<None, None>> => DOMAIN container = {}

\* C20: the checker accepts a page 3 of exactly one item.  Page 3 is rejected
\* only when it has no items; with at least one item the verdict depends on
\* the two boundaries alone, so a one-item page 3 whose item matches the last
\* item of page 2, after a matching first boundary, gives Passed; no item of
\* page 3 needs a cursor.
C20_OneItemPage3 ==
    fetched = 3 =>
        LET items3 == get_items(response)
        IN  /\ Len(items3) = 0 => FailedWith(NoItemsPage3Msg)
            /\ Len(items3) >= 1 =>
                  /\ pc \in {"Page3Fetched", "Passed", "Failed"}
                  /\ pc \in Terminal =>
                        (pc = "Passed") =
                            (/\ KeysEqual(last_item_page1, first_item_page2)
                             /\ KeysEqual(last_item_page2, items3[1]))

\* Witness of C20: a run passed whose page 3 is one item without cursor.
C20_Witness ==
    /\ fetched = 3
    /\ pc = "Passed"
    /\ Len(get_items(response)) = 1
    /\ ExtractCursor(get_items(response)[1]) = None

\* C14: the batch run invokes the checker once for every query, in the order
\* of the input, and appends one record per query in that order; a Failed
\* verdict or an exception of the checker does not end the batch: when the
\* loop is left every query has its record and the records are in the file.
C14_OncePerQuery ==
    command = "batch_test_from_csv" =>
        /\ Len(checked) = idx - 1
        /\ Len(results) = idx - 1
        /\ \A i \in 1..(idx - 1) :
              /\ checked[i].query = queries[i]
              /\ results[i].query = queries[i]
        /\ at # "loop" =>
              /\ Len(results) = Len(queries)
              /\ csv_file = Some(results)

\* Witness of C14: a batch of two queries is done; the check of the first
\* raised an exception and the second passed.
C14_Witness ==
    /\ command = "batch_test_from_csv"
    /\ at = "done"
    /\ Len(queries) = 2
    /\ checked[1].outcome.exception # NoneOpt
    /\ results[2].status = "PASSED"

\* C15: in every record of a batch run, in memory and in the results file,
\* the error detail is empty exactly when the status is PASSED.
C15_DetailIffFailed ==
    LET ok(record) == (record.error_message = << >>) = (record.status = "PASSED")
    IN  /\ \A i \in DOMAIN results : ok(results[i])
        /\ csv_file # NoneOpt => \A i \in DOMAIN csv_file[1] : ok(csv_file[1][i])

\* Witness of C15: the file of a batch run holds a PASSED record and a FAILED
\* record made from an exception.
C15_Witness ==
    /\ command = "batch_test_from_csv"
    /\ csv_file # NoneOpt
    /\ Len(csv_file[1]) = 2
    /\ csv_file[1][1].status = "PASSED"
    /\ csv_file[1][2].status = "FAILED"
    /\ checked[2].outcome.exception # NoneOpt

\* The check did not pass: it returned False or raised
CheckFailed(outcome) == outcome.exception # NoneOpt \/ ~outcome.result[1]

\* Number of records of the status
CountStatus(records, status) ==
    Cardinality({i \in DOMAIN records : records[i].status = status})

\* C16: in a batch run over n queries the FAILED records are those of the
\* queries whose check failed and all others are PASSED; passed counts the
\* PASSED records, failed the FAILED ones, and passed + failed = n when the
\* loop is left; the success rate printed is passed / n (as a percentage
\* with two decimals).
C16_Aggregation ==
    command = "batch_test_from_csv" =>
        /\ \A i \in DOMAIN results :
              results[i].status =
                  IF CheckFailed(checked[i].outcome) THEN "FAILED" ELSE "PASSED"
        /\ passed = CountStatus(results, "PASSED")
        /\ failed = CountStatus(results, "FAILED")
        /\ passed + failed = Len(results)
        /\ at # "loop" => passed + failed = Len(queries)
        /\ at = "done" =>
              /\ summary # NoneOpt
              /\ summary[1].total = Len(queries)
              /\ summary[1].passed = passed
              /\ summary[1].failed = failed
              /\ LET n == Len(queries)
                     error == IF summary[1].rate * n >= passed * 10000
                              THEN summary[1].rate * n - passed * 10000
                              ELSE passed * 10000 - summary[1].rate * n
                 IN  2 * error <= n

\* Witness of C16: a batch of two queries is done, one passed and one failed.
C16_Witness ==
    /\ command = "batch_test_from_csv"
    /\ at = "done"
    /\ Len(queries) = 2
    /\ passed = 1
    /\ failed = 1
    /\ summary[1].rate = 5000

\* The rerun loop is over and the file still holds the rows that were read
RerunLoopOver ==
    command \in RetryCommands /\ at = "loop" /\ idx > Len(failed_queries)

\* Indices of the rows the rerun command selects
SelectedIndices(cmd, rows) ==
    {i \in DOMAIN rows : Selects(cmd, rows[i].status, rows[i].error_message)}

\* The j-th smallest element of a set of indices
Nth(indices, j) ==
    CHOOSE i \in indices : Cardinality({k \in indices : k < i}) = j - 1

\* C17: a rerun invokes the checker for exactly the entries that are FAILED
\* and match its predicate (any failure for retry_failed_queries, a transport
\* failure for retry_grpc_failed_queries), overwrites the status and the
\* error detail of exactly those entries with what their check gave, and
\* leaves every other entry as it was.
C17_RerunExactly ==
    RerunLoopOver =>
        LET previous == csv_file[1]
            selected == SelectedIndices(command, previous)
        IN  /\ Len(checked) = Cardinality(selected)
            /\ Len(results) = Len(previous)
            /\ \A j \in DOMAIN checked :
                  LET i == Nth(selected, j)
                      record == batch_record(previous[i].query, checked[j].outcome)
                  IN  /\ checked[j].query = previous[i].query
                      /\ results[i] = record
            /\ \A i \in DOMAIN previous :
                  i \notin selected => results[i] = previous[i]

\* The entry a batch run records for the failed invocation
FailedEntry == batch_record(feed_id, [result |-> result, exception |-> NoneOpt])

\* The transport-failure rerun selects the entry of the failed invocation
GrpcSelected == grpc_failed(FailedEntry.status, FailedEntry.error_message)

\* C18 as claimed: the transport-failure rerun selects a FAILED entry of the
\* checker exactly when the preprocessor call or a feed call could not
\* complete, and no entry that failed for too few items, a missing cursor or
\* a boundary mismatch.
C18_TransportFilter ==
    pc = "Failed" =>
        /\ GrpcSelected = (qul_response = None \/ exc # << >>)
        /\ (TooFewItems \/ NoCursorReported \/ BoundaryReported) => ~GrpcSelected

\* C18, amended: the transport-failure rerun selects a FAILED entry of the
\* checker exactly when a feed call could not complete; it selects no entry
\* that failed because the preprocessor call failed, nor one that failed for
\* too few items, a missing cursor or a boundary mismatch.
C18_GrpcFilter ==
    pc = "Failed" =>
        /\ GrpcSelected = (exc # << >>)
        /\ qul_response = None => ~GrpcSelected
        /\ (TooFewItems \/ NoCursorReported \/ BoundaryReported) => ~GrpcSelected

\* Witness of C18: the call for page 3 failed with an error of json.loads,
\* whose text does not name gRPC, and the entry is selected.
C18_Witness ==
    /\ pc = "Failed"
    /\ fetched = 2
    /\ exc = <<"Expecting", "value:", "line", "1">>
    /\ GrpcSelected

----------------------------------------------------------------------------
(* C21..C30 *)

\* C22: a feed request of a checker run has no cursor field exactly when it
\* is the request for page 1: the first request never has the field, and
\* every request for page 2 or page 3 that is issued has it, with a
\* non-empty cursor.
C22_CursorIffNotFirst ==
    \A k \in DOMAIN requests :
        /\ ("cursor" \in DOMAIN requests[k]) = (k # 1)
        /\ k # 1 => Truthy(requests[k]["cursor"])

\* Witness of C22: the requests for the three pages were issued.
C22_Witness ==
    /\ Len(requests) = 3
    /\ "cursor" \notin DOMAIN requests[1]
    /\ requests[2]["cursor"] # requests[3]["cursor"]

\* The two arrays are equal element by element, in order
SameArrays(a, b) == Len(a) = Len(b) /\ \A i \in DOMAIN a : a[i] = b[i]

\* C23: compare_arrays returns ("PASSED", "") exactly when the two arrays of
\* catalog ids are equal element by element in order; otherwise it returns
\* FAILED with a non-empty reason: the two lengths when they differ, the
\* first differing position (counted from 0) when they are equal; the reason
\* "Arrays differ but reason unclear" is never returned.
C23_CompareArrays ==
    (fn = "compare_arrays" /\ ret # << >>) =>
        LET a == args[1]
            b == args[2]
            status == ret.value[1][1]
            reason == ret.value[1][2]
        IN  /\ ret.raised = ""
            /\ (status = "PASSED") = SameArrays(a, b)
            /\ status = "PASSED" => reason = << >>
            /\ reason # UnclearMsg
            /\ ~SameArrays(a, b) =>
                  /\ status = "FAILED"
                  /\ reason # << >>
                  /\ Len(a) # Len(b) => reason = DifferentLengthsMsg(Len(a), Len(b))
                  /\ Len(a) = Len(b) =>
                        \E i \in DOMAIN a :
                            /\ a[i] # b[i]
                            /\ \A j \in 1..(i - 1) : a[j] = b[j]
                            /\ reason = DifferentValueMsg(i - 1, a[i], b[i])

\* Witness of C23: arrays of two ids that differ in both positions were
\* compared.
C23_Witness ==
    /\ fn = "compare_arrays"
    /\ ret # << >>
    /\ Len(args[1]) = 2
    /\ Len(args[2]) = 2
    /\ args[1][1] # args[2][1]
    /\ args[1][2] # args[2][2]

\* C30: get_items tries the paths in a fixed order: for a response with a
\* list under data.items and a list at the top level it returns the list
\* under data.items; it returns the top-level list only when data has no
\* items.
C30_DataItemsFirst ==
    (/\ fn = "get_items"
     /\ ret # << >>
     /\ isinstance_dict(args[1])
     /\ "items" \in DOMAIN args[1]
     /\ "data" \in DOMAIN args[1]
     /\ isinstance_dict(args[1]["data"])) =>
        /\ ret.raised = ""
        /\ ret.value[1] = IF "items" \in DOMAIN args[1]["data"]
                          THEN args[1]["data"]["items"]
                          ELSE args[1]["items"]

\* Witness of C30: the response holds two different lists and the one under
\* data.items, which is empty, was returned.
C30_Witness ==
    /\ fn = "get_items"
    /\ ret # << >>
    /\ isinstance_dict(args[1])
    /\ DOMAIN args[1] = {"data", "items"}
    /\ isinstance_dict(args[1]["data"])
    /\ "items" \in DOMAIN args[1]["data"]
    /\ args[1]["data"]["items"] = << >>
    /\ args[1]["items"] = <<Item1>>
    /\ ret = Returned(<< >>)

\* The row is the last one of the rows with its query text
LastOfText(rows, i) ==
    \A j \in DOMAIN rows : rows[j].query = rows[i].query => j <= i

\* The positions in checked of the reruns made for the query text
RerunsOf(q) == {j \in DOMAIN checked : checked[j].query = q}

\* The largest element of a non-empty set of indices
Greatest(indices) == CHOOSE i \in indices : \A j \in indices : j <= i

\* C24: when the results file holds several entries with the same query text,
\* every rerun made for that text writes to the last entry with that text,
\* whatever the status of that entry was; an entry followed by another one
\* with the same text is never updated.
C24_LastEntryWins ==
    (command \in RetryCommands /\ at = "loop") =>
        LET previous == csv_file[1]
        IN  \A i \in DOMAIN previous :
               LET q == previous[i].query
               IN  IF LastOfText(previous, i) /\ RerunsOf(q) # {}
                   THEN results[i] =
                            batch_record(q, checked[Greatest(RerunsOf(q))].outcome)
                   ELSE results[i] = previous[i]

\* Witness of C24: the first of two entries with the same text was FAILED and
\* the second PASSED; the rerun changed the second and left the first.
C24_Witness ==
    /\ RerunLoopOver
    /\ Len(csv_file[1]) = 2
    /\ csv_file[1][1].query = csv_file[1][2].query
    /\ csv_file[1][1].status = "FAILED"
    /\ csv_file[1][2].status = "PASSED"
    /\ results[2].status = "FAILED"
    /\ results[1] = csv_file[1][1]

\* C25 as claimed: a batch run terminates normally for every list of queries:
\* it never ends in an exception, and when it has ended the results are
\* written and the summary is printed.
C25_TerminatesNormally ==
    command = "batch_test_from_csv" =>
        /\ at # "crashed"
        /\ at = "done" => csv_file = Some(results) /\ summary # NoneOpt

\* C26: when a rerun selects no entry it invokes the checker for no query
\* (no preprocessor call, no feed call) and does not write the results file:
\* the file holds what the batch run wrote, and no summary is printed.
C26_NothingSelected ==
    (command \in RetryCommands /\ failed_queries = << >>) =>
        /\ at = "done"
        /\ checked = << >>
        /\ writes = 1
        /\ csv_file = Some(results)
        /\ summary = NoneOpt

\* Witness of C26: a rerun of the transport failures found none among rows
\* of which one is FAILED.
C26_Witness ==
    /\ command = "retry_grpc_failed_queries"
    /\ failed_queries = << >>
    /\ at = "done"
    /\ \E i \in DOMAIN results : results[i].status = "FAILED"

\* C27: a rerun neither adds, removes nor reorders entries and changes no
\* query text: the rows it holds and the rows of the file have the query
\* texts of the batch run, in the same order; every status is PASSED or
\* FAILED.
C27_RowsKept ==
    command \in RetryCommands =>
        /\ \A rows \in {results, csv_file[1]} :
              /\ Len(rows) = Len(queries)
              /\ \A i \in DOMAIN rows :
                    /\ rows[i].query = queries[i]
                    /\ rows[i].status \in {"PASSED", "FAILED"}

\* Witness of C27: a rerun over two rows has checked a query and written the
\* file.
C27_Witness ==
    /\ command \in RetryCommands
    /\ at = "done"
    /\ checked # << >>
    /\ Len(csv_file[1]) = 2
    /\ writes = 2

\* The number of queries a batch run with the limit is to check
Selected(n, lim) ==
    IF lim # NoneOpt /\ lim[1] > 0
    THEN (IF lim[1] < n THEN lim[1] ELSE n)
    ELSE n

\* C29: a batch run with limit L > 0 over n queries checks the first
\* min(L, n) queries in input order; without a limit, or with a limit <= 0,
\* it checks all n; no query outside the prefix is checked or recorded.
C29_LimitPrefix ==
    command = "batch_test_from_csv" =>
        LET k == Selected(Len(csv_queries), batch_limit)
        IN  /\ queries = SubSeq(csv_queries, 1, k)
            /\ Len(checked) <= k
            /\ Len(results) = Len(checked)
            /\ \A i \in DOMAIN checked :
                  /\ checked[i].query = csv_queries[i]
                  /\ results[i].query = csv_queries[i]
            /\ at # "loop" => Len(checked) = k

\* Witness of C29: of two queries a run with limit 1 checked the first only.
C29_Witness ==
    /\ command = "batch_test_from_csv"
    /\ at = "done"
    /\ batch_limit = Some(1)
    /\ Len(csv_queries) = 2
    /\ Len(results) = 1
    /\ results[1].query = csv_queries[1]

\* The commands of the feed-fetch flow
FeedCommands == {"process_queries_from_csv", "fetch_feed.retry_failed_queries"}

\* Both remote calls of the fetch succeeded
CallsSucceeded(outcome) == outcome.qul_response # None /\ outcome.exc = NoneOpt

\* The catalog ids extracted from the response of the fetch
IdsExtracted(outcome) ==
    IF extract_catalog_ids_TypeError(outcome.response) THEN << >>
    ELSE extract_catalog_ids(outcome.response)

\* The fetch a row of the feed-fetch flow holds the outcome of: the fetch of
\* the batch run for that row, or the latest fetch of the rerun written to it
FetchOfRow(i) ==
    LET reruns == {j \in (Len(queries) + 1)..Len(checked) :
                      checked[j].query = results[i].query}
    IN  IF LastOfText(results, i) /\ reruns # {}
        THEN checked[Greatest(reruns)].outcome
        ELSE checked[i].outcome

\* C28: in the feed-fetch flow a row has status OK exactly when both remote
\* calls of its fetch succeeded and at least one catalog id was extracted;
\* a FAILED row has the catalog_id '[]' and an OK row the text of a
\* non-empty list of ids, in memory and in the file.
C28_OkIffIds ==
    command \in FeedCommands =>
        /\ \A i \in DOMAIN results :
              LET fetch == FetchOfRow(i)
                  ok == CallsSucceeded(fetch) /\ IdsExtracted(fetch) # << >>
              IN  /\ results[i].status = (IF ok THEN "OK" ELSE "FAILED")
                  /\ results[i].catalog_id =
                        (IF ok THEN json_dumps_ids(IdsExtracted(fetch))
                         ELSE EmptyListText)
        /\ \A rows \in {results} \cup {csv_file[j] : j \in DOMAIN csv_file} :
              \A i \in DOMAIN rows :
                  /\ rows[i].status \in {"OK", "FAILED"}
                  /\ (rows[i].status = "FAILED") = (rows[i].catalog_id = EmptyListText)
                  /\ Len(rows[i].catalog_id) >= 2

\* Witness of C28: after a rerun one row is OK and one row is FAILED for a
\* fetch whose calls succeeded and whose response gave no catalog id.
C28_Witness ==
    /\ command = "fetch_feed.retry_failed_queries"
    /\ at = "done"
    /\ writes = 2
    /\ \E i, j \in DOMAIN results :
          /\ results[i].status = "OK"
          /\ results[j].status = "FAILED"
          /\ CallsSucceeded(FetchOfRow(j))
          /\ IdsExtracted(FetchOfRow(j)) = << >>

\* C21: execution is sequential.  In every step at most one remote call is
\* outstanding; a feed request is issued only when the responses of all
\* earlier requests of the query have been received, and the request for
\* page 2 or 3 carries the cursor taken from the latest response; the checker
\* starts for a query only when no call of it is active, for the next query
\* of the list, with the verdicts of all earlier queries recorded.
C21_Sequential ==
    [][ /\ Cardinality(inflight') <= 1
        /\ Len(requests') > Len(requests) =>
              /\ Len(requests') = Len(requests) + 1
              /\ fetched = Len(requests)
              /\ inflight \subseteq {"qul"}
              /\ Len(requests) >= 1 =>
                    requests'[Len(requests')]["cursor"] = get_second_last_cursor(response)
        /\ (pc' = "Init" /\ pc # "Init") =>
              /\ pc = "Idle"
              /\ inflight = {}
              /\ Len(results) = idx - 1
              /\ feed_id' = queries[idx]
              /\ \A i \in DOMAIN results :
                    /\ results[i].query = queries[i]
                    /\ results[i].status \in {"PASSED", "FAILED"}
      ]_vars

\* Witness of C21: the checker runs for the second query and has its three
\* pages, the verdict of the first query is recorded.
C21_Witness ==
    /\ idx = 2
    /\ Len(results) = 1
    /\ pc = "Page3Fetched"
    /\ fetched = 3
    /\ Len(requests) = 3
    /\ inflight = {}

====
